---------------------------- MODULE Spec2Model ----------------------------
(***************************************************************************)
(* RuneScript toolchain: lexer -> parser -> compiler (with the recursion   *)
(* elimination pass) -> bytecode VM, and the reference AST evaluator.      *)
(* The lexer, parser, compiler and evaluator are pure functions and are    *)
(* modelled as operators; the VM is a state machine whose actions are the  *)
(* entry of run_script, one iteration of its interpreter loops, and its    *)
(* exit.                                                                   *)
(***************************************************************************)
EXTENDS Integers, Sequences, FiniteSets, TLC

VARIABLES
    phase,              \* position of the driver: "new" (source not processed), "idle" (between
                        \* run_script calls), "top" (in the loop of run_script), "sub" (in the loop
                        \* of its GosubWithParams arm), "failed" (lex, parse or compile failed),
                        \* "panic" (the process aborted)
    source,             \* the .rs2 text handed to the toolchain
    asts,               \* Script.body of the parsed source: the Evaluator's registry is built from it
    scripts,            \* VM.scripts: name -> instructions
    ip,                 \* VM.ip
    stack,              \* VM.stack
    variables,          \* VM.variables
    current_script,     \* VM.current_script ("" is None)
    instruction_count,  \* VM.instruction_count
    memo_cache,         \* VM.memo_cache: <<name, args>> -> value
    call,               \* locals of the running run_script: name, args, old_* snapshot
    sub,                \* locals of the running GosubWithParams arm: cache_key, saved_* snapshot
    result,             \* what the last run_script returned
    evaluated,          \* what Evaluator::eval_script returned for the last call
    history             \* completed run_script calls, oldest first

vars == <<phase, source, asts, scripts, ip, stack, variables, current_script,
          instruction_count, memo_cache, call, sub, result, evaluated, history>>

-----------------------------------------------------------------------------
(* i32: checked and wrapping arithmetic, computed without leaving the i32 range *)

I32Max == 2147483647
I32Min == -2147483647 - 1

Abs(v) == IF v < 0 THEN -v ELSE v

AddOverflows(a, b) ==
    IF b >= 0 THEN a > I32Max - b ELSE a < I32Min - b

\* i32::checked_add: <<>> is None, <<v>> is Some(v)
checked_add(a, b) == IF AddOverflows(a, b) THEN <<>> ELSE <<a + b>>

\* i32::checked_sub
checked_sub(a, b) ==
    IF (IF b >= 0 THEN a < I32Min + b ELSE a > I32Max + b) THEN <<>> ELSE <<a - b>>

MulOverflows(a, b) ==
    IF a = 0 \/ b = 0 THEN FALSE
    ELSE IF a = I32Min THEN b # 1
    ELSE IF b = I32Min THEN a # 1
    ELSE LET ua == Abs(a)
             ub == Abs(b)
         IN  IF (a > 0) = (b > 0)
             THEN ua > I32Max \div ub
             ELSE IF ub = 1 THEN FALSE
                  ELSE ua > (I32Max \div ub) + (IF I32Max % ub = ub - 1 THEN 1 ELSE 0)

\* i32::checked_mul
checked_mul(a, b) == IF MulOverflows(a, b) THEN <<>> ELSE <<a * b>>

\* two's complement a + b
WrappingAdd(a, b) ==
    IF ~AddOverflows(a, b) THEN a + b
    ELSE IF b >= 0 THEN (a - I32Max - 1) + (b - I32Max - 1)
    ELSE (a + I32Max + 1) + (b + I32Max + 1)

\* two's complement a - b
WrappingSub(a, b) ==
    IF checked_sub(a, b) # <<>> THEN a - b
    ELSE IF b >= 0 THEN (a + I32Max + 1) + ((I32Max - b) + 1)
    ELSE (a - I32Max - 1) - (b + I32Max + 1)

WrappingNeg(a) == IF a = I32Min THEN I32Min ELSE -a

RECURSIVE WrappingMulNat(_, _)
WrappingMulNat(a, b) ==
    IF b = 0 THEN 0
    ELSE LET h == WrappingMulNat(a, b \div 2)
             d == WrappingAdd(h, h)
         IN  IF b % 2 = 1 THEN WrappingAdd(d, a) ELSE d

\* two's complement a * b: what `a * b` yields in a build without overflow checks
WrappingMul(a, b) ==
    IF b >= 0 THEN WrappingMulNat(a, b)
    ELSE IF b = I32Min THEN (IF a % 2 = 1 THEN I32Min ELSE 0)
    ELSE WrappingNeg(WrappingMulNat(a, -b))

-----------------------------------------------------------------------------
(* Lexer (lexer.rs) *)

Letters == {"a","b","c","d","e","f","g","h","i","j","k","l","m","n","o","p","q","r","s","t","u","v","w","x","y","z",
            "A","B","C","D","E","F","G","H","I","J","K","L","M","N","O","P","Q","R","S","T","U","V","W","X","Y","Z"}
Digits == {"0","1","2","3","4","5","6","7","8","9"}
Whitespace == {" ", "\t", "\r"}

\* iter.peek() / iter.next() at index i of the source; "" is None
CharAt(s, i) == IF i >= 1 /\ i <= Len(s) THEN SubSeq(s, i, i) ELSE ""

DefKeywords == {"def_int", "def_string", "def_coord", "def_loc", "def_obj", "def_npc", "def_boolean",
                "def_namedobj", "def_playeruid", "def_npcuid", "def_stat", "def_component",
                "def_interface", "def_inv", "def_enum", "def_struct", "def_param", "def_dbtable",
                "def_dbrow", "def_dbcolumn", "def_varp", "def_mesanim"}

get_keyword_token(ident) ==
    IF ident \in {"proc", "clientscript", "label", "debugproc"} THEN "Trigger"
    ELSE IF ident \in DefKeywords THEN "Def"
    ELSE IF ident = "if" THEN "If"
    ELSE IF ident = "while" THEN "While"
    ELSE IF ident = "return" THEN "Return"
    ELSE IF ident = "calc" THEN "Command"
    ELSE "Identifier"

create_token(line, position, kind, value) ==
    [line |-> line, position |-> position, kind |-> kind, value |-> value]

\* the backward scan over the emitted tokens that classifies '='
RECURSIVE EqIsComparison(_, _)
EqIsComparison(tokens, i) ==
    IF i < 1 THEN FALSE
    ELSE IF tokens[i].kind \in {"If", "While"} THEN TRUE
    ELSE IF tokens[i].kind \in {"Def", "LocalVar"} THEN FALSE
    ELSE EqIsComparison(tokens, i - 1)

\* first index >= j whose character is not in set (next_if / take_while)
RECURSIVE ScanWhile(_, _, _)
ScanWhile(s, j, set) ==
    IF j <= Len(s) /\ CharAt(s, j) \in set THEN ScanWhile(s, j + 1, set) ELSE j

RECURSIVE ScanUntilNewline(_, _)
ScanUntilNewline(s, j) ==
    IF j <= Len(s) /\ CharAt(s, j) # "\n" THEN ScanUntilNewline(s, j + 1) ELSE j

SingleChar == [c \in {"[", "]", "{", "}", "~", "(", ")", "$", ";", ",", "_"} |->
    CASE c = "[" -> "LBracket" [] c = "]" -> "RBracket" [] c = "{" -> "LBrace" [] c = "}" -> "RBrace"
      [] c = "~" -> "ScriptCall" [] c = "(" -> "LParen" [] c = ")" -> "RParen" [] c = "$" -> "LocalVar"
      [] c = ";" -> "Semicolon" [] c = "," -> "Comma" [] c = "_" -> "Underscore"]

\* the body of a /* ... */ comment, from index j (just after the opening "/*")
RECURSIVE BlockComment(_, _, _, _, _, _, _)
BlockComment(s, j, line, position, depth, prev_char, comment) ==
    IF j > Len(s) THEN [ok |-> FALSE, line |-> line, position |-> position]
    ELSE LET c == CharAt(s, j)
             line1 == IF c = "\n" THEN line + 1 ELSE line
             position1 == IF c = "\n" THEN 0 ELSE position + 1
         IN  IF prev_char = "/" /\ c = "*"
             THEN BlockComment(s, j + 1, line1, position1, depth + 1, c, comment \o c)
             ELSE IF prev_char = "*" /\ c = "/"
             THEN IF depth - 1 = 0
                  THEN [ok |-> TRUE, next |-> j + 1, line |-> line1, position |-> position1,
                        comment |-> SubSeq(comment, 1, Len(comment) - 1)]
                  ELSE BlockComment(s, j + 1, line1, position1, depth - 1, c, comment \o c)
             ELSE BlockComment(s, j + 1, line1, position1, depth, c, comment \o c)

\* one iteration of the while-let loop of tokenize; st.i is the index of the next character
LexStep(s, st) ==
    IF st.i > Len(s) \/ ~st.ok THEN st
    ELSE
    LET i == st.i
        line == st.line
        tokens == st.tokens
        ch == CharAt(s, i)
        position == st.position + 1
        go(i1, line1, position1, tokens1) ==
            [i |-> i1, line |-> line1, position |-> position1, tokens |-> tokens1, ok |-> TRUE]
        emit(kind, value) ==
            go(i + 1, line, position, Append(tokens, create_token(line, position, kind, value)))
        fail == [i |-> i, line |-> line, position |-> position, tokens |-> tokens, ok |-> FALSE]
    IN  CASE ch = "\n" -> go(i + 1, line + 1, 0, tokens)
          [] ch \in Whitespace -> go(i + 1, line, position, tokens)
          [] ch \in DOMAIN SingleChar -> emit(SingleChar[ch], ch)
          [] ch = "=" ->
                IF EqIsComparison(tokens, Len(tokens))
                THEN emit("ComparisonOperator", ch)
                ELSE emit("Equals", ch)
          [] ch \in {"<", ">"} ->
                IF CharAt(s, i + 1) = "="
                THEN go(i + 2, line, position + 1,
                        Append(tokens, create_token(line, position + 1, "ComparisonOperator", ch \o "=")))
                ELSE emit("ComparisonOperator", ch)
          [] ch \in {"+", "-", "*"} -> emit("BinaryOperator", ch)
          [] ch = "/" ->
                IF CharAt(s, i + 1) = "/"
                THEN LET e == ScanUntilNewline(s, i + 2)
                         comment == SubSeq(s, i + 2, e - 1)
                         p == position + 1 + Len(comment)
                     IN  \* take_while also consumes the newline that ends it
                         go(e + 1, line, p, Append(tokens, create_token(line, p, "SingleLineComment", comment)))
                ELSE IF CharAt(s, i + 1) = "*"
                THEN LET b == BlockComment(s, i + 2, line, position + 1, 1, "", "")
                     IN  IF ~b.ok THEN fail
                         ELSE go(b.next, b.line, b.position,
                                 Append(tokens, create_token(b.line, b.position, "MultiLineComment", b.comment)))
                ELSE emit("BinaryOperator", ch)
          [] ch \in Letters ->
                LET e == ScanWhile(s, i + 1, Letters \cup Digits \cup {"_"})
                    ident == SubSeq(s, i, e - 1)
                    p == position + Len(ident)
                IN  go(e, line, p, Append(tokens, create_token(line, p, get_keyword_token(ident), ident)))
          [] ch \in Digits ->
                LET e == ScanWhile(s, i + 1, Digits)
                    number == SubSeq(s, i, e - 1)
                    p == position + Len(number)
                IN  go(e, line, p, Append(tokens, create_token(line, p, "Number", number)))
          [] OTHER -> fail

\* n iterations of the loop (every iteration consumes a character, so Len(s) of them finish it)
RECURSIVE LexLoop(_, _, _)
LexLoop(s, st, n) ==
    IF n <= 0 \/ ~st.ok \/ st.i > Len(s) THEN st
    ELSE IF n = 1 THEN LexStep(s, st)
    ELSE LexLoop(s, LexLoop(s, st, n \div 2), n - (n \div 2))

\* Lexer::tokenize: [ok, tokens]; ok = FALSE is Err(LexingError)
tokenize(s) ==
    LET st == LexLoop(s, [i |-> 1, line |-> 0, position |-> 0, tokens |-> <<>>, ok |-> TRUE], Len(s))
    IN  IF st.ok
        THEN [ok |-> TRUE, tokens |-> Append(st.tokens, create_token(st.line, st.position, "EOF", "EndOfFile"))]
        ELSE [ok |-> FALSE, tokens |-> <<>>]

-----------------------------------------------------------------------------
(* Parser (parser.rs).  AstKind values are records tagged by `tag`; the     *)
(* token vector is the sequence `tokens` read from index p (at() is         *)
(* tokens[p], next_token() moves p on).  Every parse operator returns       *)
(* [ok, node, p]; ok = FALSE is Err(SyntaxError) or a panic.                *)

NumericLiteral(n) == [tag |-> "NumericLiteral", n |-> n]
StringLiteral(str) == [tag |-> "StringLiteral", s |-> str]
Identifier(name) == [tag |-> "Identifier", name |-> name]
Proc(name) == [tag |-> "Proc", name |-> name]
LocalVar(name) == [tag |-> "LocalVar", name |-> name]
ReturnType == [tag |-> "ReturnType"]
AssignmentExpression == [tag |-> "AssignmentExpression"]
BinaryExpression(lhs, rhs, operator) ==
    [tag |-> "BinaryExpression", lhs |-> lhs, rhs |-> rhs, operator |-> operator]
Define(name, var_type, value) == [tag |-> "Define", name |-> name, var_type |-> var_type, value |-> value]
Return(expr) == [tag |-> "Return", expr |-> expr]
If(expression, value, return_statement) ==
    [tag |-> "If", expression |-> expression, value |-> value, return_statement |-> return_statement]
While(condition, body) == [tag |-> "While", condition |-> condition, body |-> body]
Block(statements) == [tag |-> "Block", statements |-> statements]
FunctionCall(name, arguments) == [tag |-> "FunctionCall", name |-> name, arguments |-> arguments]
Assignment(target, value) == [tag |-> "Assignment", target |-> target, value |-> value]
ScriptCall(script, arguments) == [tag |-> "ScriptCall", script |-> script, arguments |-> arguments]
Trigger(name, kind, args, body, return_type) ==
    [tag |-> "Trigger", name |-> name, kind |-> kind, args |-> args, body |-> body, return_type |-> return_type]

Ok(node, p) == [ok |-> TRUE, node |-> node, p |-> p]
Fail(p) == [ok |-> FALSE, p |-> p]

\* Parser::at; reading past the end of the vector is the unwrap() panic
At(tokens, p) == IF p <= Len(tokens) THEN tokens[p] ELSE create_token(0, 0, "Panic", "")

is_eof(tokens, p) == At(tokens, p).kind = "EOF"

DigitValue(c) ==
    CASE c = "0" -> 0 [] c = "1" -> 1 [] c = "2" -> 2 [] c = "3" -> 3 [] c = "4" -> 4
      [] c = "5" -> 5 [] c = "6" -> 6 [] c = "7" -> 7 [] c = "8" -> 8 [] c = "9" -> 9

\* str::parse::<i32>: <<>> on overflow (the unwrap() then panics)
RECURSIVE ParseI32(_, _, _)
ParseI32(str, j, acc) ==
    IF j > Len(str) THEN <<acc>>
    ELSE LET d == DigitValue(CharAt(str, j))
         IN  IF MulOverflows(acc, 10) \/ AddOverflows(acc * 10, d) THEN <<>>
             ELSE ParseI32(str, j + 1, acc * 10 + d)

get_type_from_def(def_str) ==
    CASE def_str = "def_int" -> "Int" [] def_str = "def_boolean" -> "Boolean" [] def_str = "def_string" -> "String"
      [] OTHER -> "Opaque"

get_default_value_for_type(var_type) ==
    IF var_type = "String" THEN StringLiteral("") ELSE NumericLiteral(0)

\* the `?` operator: an Err is returned at once, an Ok value goes on to K
Try(r, K(_)) == IF ~r.ok THEN r ELSE K(r)

RECURSIVE parse_statement(_, _), parse_expression(_, _), parse_additive_expression(_, _),
          parse_multiplicative_expression(_, _), parse_primary_expression(_, _),
          ParseCallArgs(_, _, _), AdditiveLoop(_, _, _), MultiplicativeLoop(_, _, _),
          ParseIfBlock(_, _, _, _), ParseWhileBlock(_, _, _)

parse_trigger(tokens, p) ==
    IF At(tokens, p).value = "proc" THEN Ok(Proc("proc"), p + 1) ELSE Fail(p + 1)

\* the argument loop of a command or script call: while at().kind != RParen
ParseCallArgs(tokens, p, arguments) ==
    IF At(tokens, p).kind = "RParen" THEN [ok |-> TRUE, arguments |-> arguments, p |-> p]
    ELSE IF arguments # <<>> /\ At(tokens, p).kind # "Comma" THEN Fail(p)
    ELSE Try(parse_expression(tokens, IF arguments # <<>> THEN p + 1 ELSE p),
             LAMBDA e : ParseCallArgs(tokens, e.p, Append(arguments, e.node)))

\* eat(kind) after a parsed node, then the node at the next position
Expect(tokens, e, kind, node) ==
    IF At(tokens, e.p).kind # kind THEN Fail(e.p) ELSE Ok(node, e.p + 1)

parse_primary_expression(tokens, p) ==
    LET k == At(tokens, p).kind
    IN  CASE k = "Number" ->
                LET v == ParseI32(At(tokens, p).value, 1, 0)
                IN  IF v = <<>> THEN Fail(p + 1) ELSE Ok(NumericLiteral(v[1]), p + 1)
          [] k = "Identifier" ->
                IF At(tokens, p).value = "calc"
                THEN IF At(tokens, p + 1).kind # "LParen" THEN Fail(p + 1)
                     ELSE Try(parse_additive_expression(tokens, p + 2),
                              LAMBDA e : Expect(tokens, e, "RParen", FunctionCall("calc", <<e.node>>)))
                ELSE Ok(Identifier(At(tokens, p).value), p + 1)
          [] k = "Return" ->
                Try(parse_expression(tokens, p + 1),
                    LAMBDA e : Expect(tokens, e, "Semicolon", Return(e.node)))
          [] k = "LocalVar" ->
                IF p + 1 > Len(tokens) THEN Fail(p + 1)
                ELSE Ok(LocalVar(At(tokens, p + 1).value), p + 2)
          [] k = "LParen" ->
                Try(parse_expression(tokens, p + 1), LAMBDA e : Expect(tokens, e, "RParen", e.node))
          [] k = "Equals" -> Ok(AssignmentExpression, p + 1)
          [] k = "LBracket" ->
                Try(parse_expression(tokens, p + 1), LAMBDA e : Expect(tokens, e, "RBracket", e.node))
          [] k = "Trigger" -> parse_trigger(tokens, p)
          [] k = "If" ->
                IF At(tokens, p + 1).kind # "LParen" THEN Fail(p + 1)
                ELSE Try(parse_expression(tokens, p + 2), LAMBDA e :
                     IF At(tokens, e.p).kind # "Equals" THEN Fail(e.p)
                     ELSE Try(parse_expression(tokens, e.p + 1), LAMBDA v :
                          IF At(tokens, v.p).kind # "RParen" THEN Fail(v.p)
                          ELSE IF At(tokens, v.p + 1).kind # "LBrace" THEN Fail(v.p + 1)
                          ELSE Try(parse_expression(tokens, v.p + 2), LAMBDA r :
                               Expect(tokens, r, "RBrace", If(e.node, v.node, r.node)))))
          [] k = "Command" ->
                IF At(tokens, p + 1).kind # "LParen" THEN Fail(p + 1)
                ELSE Try(ParseCallArgs(tokens, p + 2, <<>>),
                         LAMBDA a : Ok(FunctionCall(At(tokens, p).value, a.arguments), a.p + 1))
          [] k = "ScriptCall" ->
                Try(parse_primary_expression(tokens, p + 1), LAMBDA n :
                    IF At(tokens, n.p).kind = "LParen"
                    THEN Try(ParseCallArgs(tokens, n.p + 1, <<>>),
                             LAMBDA a : Ok(ScriptCall(n.node, a.arguments), a.p + 1))
                    ELSE Ok(ScriptCall(n.node, <<>>), n.p))
          [] OTHER -> Fail(p)

\* while !is_eof() && at().value == "*" || at().value == "/"
MultiplicativeLoop(tokens, p, left) ==
    IF (~is_eof(tokens, p) /\ At(tokens, p).value = "*") \/ At(tokens, p).value = "/"
    THEN Try(parse_primary_expression(tokens, p + 1), LAMBDA right :
             MultiplicativeLoop(tokens, right.p, BinaryExpression(left, right.node, At(tokens, p).value)))
    ELSE Ok(left, p)

parse_multiplicative_expression(tokens, p) ==
    Try(parse_primary_expression(tokens, p), LAMBDA left : MultiplicativeLoop(tokens, left.p, left.node))

\* while at().kind == BinaryOperator
AdditiveLoop(tokens, p, left) ==
    IF At(tokens, p).kind = "BinaryOperator"
    THEN Try(parse_multiplicative_expression(tokens, p + 1), LAMBDA right :
             AdditiveLoop(tokens, right.p, BinaryExpression(left, right.node, At(tokens, p).value)))
    ELSE Ok(left, p)

parse_additive_expression(tokens, p) ==
    Try(parse_multiplicative_expression(tokens, p), LAMBDA left : AdditiveLoop(tokens, left.p, left.node))

parse_expression(tokens, p) ==
    Try(parse_additive_expression(tokens, p), LAMBDA left :
        IF At(tokens, left.p).kind = "ComparisonOperator"
           \/ (At(tokens, left.p).kind = "Equals"
               /\ Len(tokens) - left.p + 1 > 1 /\ At(tokens, left.p + 1).kind # "RParen")
        THEN Try(parse_additive_expression(tokens, left.p + 1), LAMBDA right :
                 Ok(BinaryExpression(left.node, right.node, At(tokens, left.p).value), right.p))
        ELSE left)

\* position after an optional ';'
SkipSemicolon(tokens, p) == IF At(tokens, p).kind = "Semicolon" THEN p + 1 ELSE p

\* the statement loop of an if block: a Return statement is taken out of the
\* block and its operand becomes return_statement
ParseIfBlock(tokens, p, statements, return_statement) ==
    IF ~is_eof(tokens, p) /\ At(tokens, p).kind # "RBrace"
    THEN Try(parse_statement(tokens, p), LAMBDA stmt :
             IF stmt.node.tag = "Return"
             THEN ParseIfBlock(tokens, stmt.p, statements, stmt.node.expr)
             ELSE ParseIfBlock(tokens, stmt.p, Append(statements, stmt.node), return_statement))
    ELSE [ok |-> TRUE, statements |-> statements, return_statement |-> return_statement, p |-> p]

ParseWhileBlock(tokens, p, statements) ==
    IF ~is_eof(tokens, p) /\ At(tokens, p).kind # "RBrace"
    THEN Try(parse_statement(tokens, p), LAMBDA stmt :
             ParseWhileBlock(tokens, stmt.p, Append(statements, stmt.node)))
    ELSE [ok |-> TRUE, statements |-> statements, p |-> p]

parse_statement(tokens, p) ==
    LET k == At(tokens, p).kind
    IN  CASE k = "Def" ->
                IF At(tokens, p + 1).kind # "LocalVar" \/ p + 2 > Len(tokens) THEN Fail(p + 1)
                ELSE IF At(tokens, p + 3).kind = "Equals"
                THEN Try(parse_expression(tokens, p + 4), LAMBDA e :
                         Ok(Define(At(tokens, p + 2).value, get_type_from_def(At(tokens, p).value), e.node),
                            SkipSemicolon(tokens, e.p)))
                ELSE Ok(Define(At(tokens, p + 2).value, get_type_from_def(At(tokens, p).value),
                               get_default_value_for_type(get_type_from_def(At(tokens, p).value))),
                        SkipSemicolon(tokens, p + 3))
          [] k = "If" ->
                IF At(tokens, p + 1).kind # "LParen" THEN Fail(p + 1)
                ELSE Try(parse_expression(tokens, p + 2), LAMBDA condition :
                     IF At(tokens, condition.p).kind # "RParen" THEN Fail(condition.p)
                     ELSE IF At(tokens, condition.p + 1).kind = "LBrace"
                     THEN Try(ParseIfBlock(tokens, condition.p + 2, <<>>, ReturnType), LAMBDA b :
                              Expect(tokens, b, "RBrace",
                                     If(condition.node, Block(b.statements), b.return_statement)))
                     ELSE Try(parse_statement(tokens, condition.p + 1), LAMBDA body :
                              Ok(If(condition.node, body.node, ReturnType), body.p)))
          [] k = "While" ->
                IF At(tokens, p + 1).kind # "LParen" THEN Fail(p + 1)
                ELSE Try(parse_expression(tokens, p + 2), LAMBDA condition :
                     IF At(tokens, condition.p).kind # "RParen" THEN Fail(condition.p)
                     ELSE IF At(tokens, condition.p + 1).kind = "LBrace"
                     THEN Try(ParseWhileBlock(tokens, condition.p + 2, <<>>), LAMBDA b :
                              Expect(tokens, b, "RBrace", While(condition.node, Block(b.statements))))
                     ELSE Try(parse_statement(tokens, condition.p + 1), LAMBDA body :
                              Ok(While(condition.node, body.node), body.p)))
          [] k = "Return" ->
                IF At(tokens, p + 1).kind # "LParen" THEN Fail(p + 1)
                ELSE Try(parse_expression(tokens, p + 2), LAMBDA e :
                         IF At(tokens, e.p).kind # "RParen" THEN Fail(e.p)
                         ELSE Ok(Return(e.node), SkipSemicolon(tokens, e.p + 1)))
          [] k = "LocalVar" ->
                Try(parse_primary_expression(tokens, p), LAMBDA var :
                    IF At(tokens, var.p).kind = "Equals"
                    THEN Try(parse_expression(tokens, var.p + 1), LAMBDA value :
                             Ok(Assignment(var.node, value.node), SkipSemicolon(tokens, value.p)))
                    ELSE var)
          [] OTHER ->
                Try(parse_expression(tokens, p), LAMBDA e : Ok(e.node, SkipSemicolon(tokens, e.p)))

\* the parameter loop of a script declaration: alternating type and LocalVar nodes
RECURSIVE ParseDeclArgs(_, _, _)
ParseDeclArgs(tokens, p, args) ==
    IF ~is_eof(tokens, p) /\ At(tokens, p).kind # "RParen"
    THEN Try(parse_primary_expression(tokens, IF At(tokens, p).kind = "Comma" THEN p + 1 ELSE p),
             LAMBDA arg_type :
             IF At(tokens, arg_type.p).kind # "LocalVar" THEN Fail(arg_type.p)
             ELSE Try(parse_primary_expression(tokens, arg_type.p), LAMBDA var :
                      ParseDeclArgs(tokens, var.p, args \o <<arg_type.node, var.node>>)))
    ELSE [ok |-> TRUE, args |-> args, p |-> p]

RECURSIVE ParseDeclReturnType(_, _, _)
ParseDeclReturnType(tokens, p, return_type) ==
    IF ~is_eof(tokens, p) /\ At(tokens, p).kind # "RParen"
    THEN Try(parse_primary_expression(tokens, IF At(tokens, p).kind = "Comma" THEN p + 1 ELSE p),
             LAMBDA t : ParseDeclReturnType(tokens, t.p, t.node))
    ELSE [ok |-> TRUE, return_type |-> return_type, p |-> p]

\* the body loop: statements until EOF or the next '['
RECURSIVE ParseDeclBody(_, _, _)
ParseDeclBody(tokens, p, body_statements) ==
    IF ~is_eof(tokens, p) /\ At(tokens, p).kind # "LBracket"
    THEN Try(parse_statement(tokens, p), LAMBDA stmt :
             ParseDeclBody(tokens, stmt.p, Append(body_statements, stmt.node)))
    ELSE [ok |-> TRUE, statements |-> body_statements, p |-> p]

\* the optional parenthesised parameter list: [ok, args, p]
ParseDeclArgList(tokens, p) ==
    IF At(tokens, p).kind = "LParen"
    THEN Try(ParseDeclArgs(tokens, p + 1, <<>>), LAMBDA l :
             IF At(tokens, l.p).kind # "RParen" THEN Fail(l.p)
             ELSE [ok |-> TRUE, args |-> l.args, p |-> l.p + 1])
    ELSE [ok |-> TRUE, args |-> <<>>, p |-> p]

\* the optional parenthesised return type: [ok, return_type, p]
ParseDeclReturnList(tokens, p) ==
    IF At(tokens, p).kind = "LParen"
    THEN Try(ParseDeclReturnType(tokens, p + 1, ReturnType), LAMBDA l :
             IF At(tokens, l.p).kind # "RParen" THEN Fail(l.p)
             ELSE [ok |-> TRUE, return_type |-> l.return_type, p |-> l.p + 1])
    ELSE [ok |-> TRUE, return_type |-> ReturnType, p |-> p]

\* '[kind,_]': the name did not parse
ParseUnnamedDeclaration(tokens, kind, p) ==
    IF At(tokens, p).kind = "Underscore"
    THEN IF At(tokens, p + 1).kind # "RBracket" THEN Fail(p + 1)
         ELSE Try(parse_statement(tokens, p + 2), LAMBDA body :
                  Ok(Trigger(Identifier("_"), kind.node, <<>>, body.node, ReturnType), body.p))
    ELSE Fail(p + 1)

ParseNamedDeclaration(tokens, kind, name) ==
    IF At(tokens, name.p).kind # "RBracket" THEN Fail(name.p)
    ELSE Try(ParseDeclArgList(tokens, name.p + 1), LAMBDA a :
         Try(ParseDeclReturnList(tokens, a.p), LAMBDA r :
         Try(ParseDeclBody(tokens, r.p, <<>>), LAMBDA b :
             Ok(Trigger(name.node, kind.node, a.args, Block(b.statements), r.return_type), b.p))))

\* the name after the comma: a name that parses, or '_'
ParseDeclarationName(tokens, kind, name) ==
    IF name.ok THEN ParseNamedDeclaration(tokens, kind, name)
    ELSE ParseUnnamedDeclaration(tokens, kind, name.p)

parse_script_declaration(tokens, p) ==
    IF At(tokens, p).kind # "LBracket" THEN Fail(p)
    ELSE Try(parse_primary_expression(tokens, p + 1), LAMBDA kind :
             IF At(tokens, kind.p).kind # "Comma" THEN Fail(kind.p)
             ELSE ParseDeclarationName(tokens, kind, parse_primary_expression(tokens, kind.p + 1)))

\* Parser::parse: [ok, body]
RECURSIVE ParseProgram(_, _, _)
ParseProgramNext(tokens, body, d) ==
    IF ~d.ok THEN [ok |-> FALSE, body |-> <<>>]
    ELSE ParseProgram(tokens, d.p, Append(body, d.node))

ParseProgram(tokens, p, body) ==
    IF is_eof(tokens, p) THEN [ok |-> TRUE, body |-> body]
    ELSE ParseProgramNext(tokens, body, parse_script_declaration(tokens, p))

parse(tokens) == ParseProgram(tokens, 1, <<>>)

-----------------------------------------------------------------------------
(* Bytecode (bytecode.rs).  Branch and jump targets are 0-based indices,    *)
(* as in the code: the instruction at index t is instructions[t + 1].       *)

PushConstantInt(v) == [op |-> "PushConstantInt", n |-> v]
PushConstantString(str) == [op |-> "PushConstantString", s |-> str]
PushIntLocal(name) == [op |-> "PushIntLocal", name |-> name]
PopIntLocal(name) == [op |-> "PopIntLocal", name |-> name]
Branch(op, target) == [op |-> op, target |-> target]
Jump(target) == [op |-> "Jump", target |-> target]
BranchNot(target) == [op |-> "BranchNot", target |-> target]
GosubWithParams(name) == [op |-> "GosubWithParams", name |-> name]
Simple(op) == [op |-> op]

BranchOps == {"Branch", "BranchNot", "BranchEquals", "BranchNotEquals", "BranchLessThan",
              "BranchLessThanOrEquals", "BranchGreaterThan", "BranchGreaterThanOrEquals"}

-----------------------------------------------------------------------------
(* Compiler (compiler.rs).  A ByteCode under construction is                *)
(* [ok, instructions]; ok = FALSE is a panic of the compiler.               *)

\* str::trim_start_matches('$')
RECURSIVE TrimDollar(_)
TrimDollar(str) == IF Len(str) > 0 /\ CharAt(str, 1) = "$" THEN TrimDollar(Tail(str)) ELSE str

\* format!("arg{}", i)
ArgName(i) == "arg" \o ToString(i)

Emit(bc, instruction) == [ok |-> bc.ok, instructions |-> Append(bc.instructions, instruction)]

\* a jump back that skips the first instruction of the condition
LoopBackPastStart(body, loop_start) == Emit(body, Jump(loop_start + 1))

\* the jump that closes a while loop
LoopBack(body, loop_start) == Emit(body, Jump(loop_start))
Panic(bc) == [ok |-> FALSE, instructions |-> bc.instructions]

ComparisonBranch(operator) ==
    CASE operator = "=" -> "BranchEquals"
      [] operator = "<" -> "BranchLessThan"
      [] operator = "<=" -> "BranchLessThanOrEquals"
      [] operator = ">" -> "BranchGreaterThan"
      [] operator = ">=" -> "BranchGreaterThanOrEquals"

\* the operator arm of a BinaryExpression reached through compile_node
BinaryOperatorCode(bc, operator) ==
    IF operator \in {"=", "<", "<=", ">", ">="}
    THEN LET here == Len(bc.instructions)
         IN  [ok |-> bc.ok,
              instructions |-> bc.instructions \o
                  << Branch(ComparisonBranch(operator), here + 3),
                     PushConstantInt(0),
                     Jump((here + 2) + 2),
                     PushConstantInt(1) >>]
    ELSE IF operator = "+" THEN Emit(bc, Simple("Add"))
    ELSE IF operator = "-" THEN Emit(bc, Simple("Subtract"))
    ELSE IF operator = "*" THEN Emit(bc, Simple("Multiply"))
    ELSE Panic(bc)

\* the operator arm of calc(lhs op rhs)
CalcOperatorCode(bc, operator) ==
    IF operator = "+" THEN Emit(bc, Simple("Add"))
    ELSE IF operator = "-" THEN Emit(bc, Simple("Subtract"))
    ELSE IF operator = "*" THEN Emit(bc, Simple("Multiply"))
    ELSE IF operator = "/" THEN Emit(bc, Simple("Divide"))
    ELSE Panic(bc)

RECURSIVE compile_node(_, _), CompileEach(_, _, _)

\* compile_node over nodes[i..], in order
CompileEach(nodes, i, bc) ==
    IF i > Len(nodes) \/ ~bc.ok THEN bc
    ELSE CompileEach(nodes, i + 1, compile_node(nodes[i], bc))

compile_node(node, bc) ==
    IF ~bc.ok THEN bc
    ELSE
    CASE node.tag = "NumericLiteral" -> Emit(bc, PushConstantInt(node.n))
      [] node.tag = "StringLiteral" -> Emit(bc, PushConstantString(node.s))
      [] node.tag = "LocalVar" -> Emit(bc, PushIntLocal(TrimDollar(node.name)))
      [] node.tag = "BinaryExpression" ->
            LET operands == compile_node(node.rhs, compile_node(node.lhs, bc))
            IN  IF ~operands.ok THEN operands ELSE BinaryOperatorCode(operands, node.operator)
      [] node.tag = "Assignment" ->
            LET value == compile_node(node.value, bc)
            IN  IF ~value.ok THEN value
                ELSE IF node.target.tag = "LocalVar"
                THEN Emit(value, PopIntLocal(TrimDollar(node.target.name)))
                ELSE value
      [] node.tag = "Define" ->
            LET value == compile_node(node.value, bc)
            IN  IF ~value.ok THEN value ELSE Emit(value, PopIntLocal(TrimDollar(node.name)))
      [] node.tag = "If" ->
            LET cond == compile_node(node.expression, bc)
                jump_index == Len(cond.instructions)
                branch == Emit(cond, BranchNot(0))
                then_part == IF node.return_statement.tag = "Return"
                             THEN LET e == compile_node(node.return_statement.expr, branch)
                                  IN  IF ~e.ok THEN e ELSE Emit(e, Simple("Return"))
                             ELSE branch
                else_jump_index == Len(then_part.instructions)
                jump == Emit(then_part, Jump(0))
                patched == [jump EXCEPT !.instructions[jump_index + 1] = BranchNot(Len(jump.instructions))]
                else_part == compile_node(node.value, patched)
            IN  IF ~cond.ok THEN cond
                ELSE IF ~then_part.ok THEN then_part
                ELSE IF ~else_part.ok THEN else_part
                ELSE [else_part EXCEPT !.instructions[else_jump_index + 1] = Jump(Len(else_part.instructions))]
      [] node.tag = "While" ->
            LET loop_start == Len(bc.instructions)
                cond == compile_node(node.condition, bc)
                branch_pos == Len(cond.instructions)
                branch == Emit(cond, BranchNot(0))
                body == compile_node(node.body, branch)
                back == LoopBack(body, loop_start)
            IN  IF ~cond.ok THEN cond
                ELSE IF ~body.ok THEN body
                ELSE [back EXCEPT !.instructions[branch_pos + 1] = BranchNot(Len(back.instructions))]
      [] node.tag = "Block" -> CompileEach(node.statements, 1, bc)
      [] node.tag = "Return" ->
            LET e == compile_node(node.expr, bc)
            IN  IF ~e.ok THEN e ELSE Emit(e, Simple("Return"))
      [] node.tag = "FunctionCall" ->
            IF node.name = "calc"
            THEN IF node.arguments = <<>> THEN bc
                 ELSE LET arg == node.arguments[1]
                      IN  IF arg.tag = "BinaryExpression"
                          THEN LET operands == compile_node(arg.rhs, compile_node(arg.lhs, bc))
                               IN  IF ~operands.ok THEN operands
                                   ELSE CalcOperatorCode(operands, arg.operator)
                          ELSE compile_node(arg, bc)
            ELSE IF node.name = "abs"
            THEN IF node.arguments = <<>> THEN bc
                 ELSE LET arg == compile_node(node.arguments[1], bc)
                      IN  IF ~arg.ok THEN arg ELSE Emit(arg, Simple("Abs"))
            ELSE Panic(bc)
      [] node.tag = "ScriptCall" ->
            LET args == CompileEach(node.arguments, 1, bc)
                count == Emit(args, PushConstantInt(Len(node.arguments)))
            IN  IF ~args.ok THEN args
                ELSE IF node.script.tag = "Identifier"
                THEN Emit(count, GosubWithParams(node.script.name))
                ELSE Panic(count)
      [] OTHER -> bc

-----------------------------------------------------------------------------
(* The recursion elimination pass (Compiler::transform_recursive_to_iterative_with_param) *)

Calc(lhs, operator, rhs) == FunctionCall("calc", <<BinaryExpression(lhs, rhs, operator)>>)

RECURSIVE contains_recursive_call(_, _)
contains_recursive_call(node, script_name) ==
    CASE node.tag = "ScriptCall" ->
            node.script.tag = "Identifier" /\ script_name # "" /\ node.script.name = script_name
      [] node.tag = "Block" ->
            \E i \in 1..Len(node.statements) : contains_recursive_call(node.statements[i], script_name)
      [] node.tag = "If" ->
            \/ contains_recursive_call(node.expression, script_name)
            \/ contains_recursive_call(node.value, script_name)
            \/ contains_recursive_call(node.return_statement, script_name)
      [] node.tag = "While" ->
            \/ contains_recursive_call(node.condition, script_name)
            \/ contains_recursive_call(node.body, script_name)
      [] node.tag = "Return" -> contains_recursive_call(node.expr, script_name)
      [] node.tag = "Assignment" ->
            \/ contains_recursive_call(node.target, script_name)
            \/ contains_recursive_call(node.value, script_name)
      [] node.tag = "Define" -> contains_recursive_call(node.value, script_name)
      [] node.tag = "BinaryExpression" ->
            \/ contains_recursive_call(node.lhs, script_name)
            \/ contains_recursive_call(node.rhs, script_name)
      [] node.tag = "FunctionCall" ->
            \E i \in 1..Len(node.arguments) : contains_recursive_call(node.arguments[i], script_name)
      [] OTHER -> FALSE

RECURSIVE count_recursive_calls(_, _), CountEach(_, _, _)
CountEach(nodes, i, script_name) ==
    IF i > Len(nodes) THEN 0
    ELSE count_recursive_calls(nodes[i], script_name) + CountEach(nodes, i + 1, script_name)

count_recursive_calls(node, script_name) ==
    CASE node.tag = "ScriptCall" ->
            IF node.script.tag = "Identifier" /\ node.script.name = script_name THEN 1 ELSE 0
      [] node.tag = "FunctionCall" -> CountEach(node.arguments, 1, script_name)
      [] node.tag = "BinaryExpression" ->
            count_recursive_calls(node.lhs, script_name) + count_recursive_calls(node.rhs, script_name)
      [] OTHER -> 0

RECURSIVE has_nested_recursion(_, _)
has_nested_recursion(node, script_name) ==
    CASE node.tag = "ScriptCall" ->
            IF node.script.tag = "Identifier" /\ node.script.name = script_name
            THEN \E i \in 1..Len(node.arguments) : has_nested_recursion(node.arguments[i], script_name)
            ELSE FALSE
      [] node.tag = "FunctionCall" ->
            \E i \in 1..Len(node.arguments) : has_nested_recursion(node.arguments[i], script_name)
      [] node.tag = "BinaryExpression" ->
            has_nested_recursion(node.lhs, script_name) \/ has_nested_recursion(node.rhs, script_name)
      [] OTHER -> FALSE

\* the If statements of the block, in order
RECURSIVE BaseCases(_, _)
BaseCases(statements, i) ==
    IF i > Len(statements) THEN <<>>
    ELSE IF statements[i].tag = "If" THEN <<statements[i]>> \o BaseCases(statements, i + 1)
    ELSE BaseCases(statements, i + 1)

\* the operand of the last Return statement that contains a self call; <<>> is None
RECURSIVE RecursiveExpr(_, _, _, _)
RecursiveExpr(statements, i, script_name, found) ==
    IF i > Len(statements) THEN found
    ELSE IF statements[i].tag = "Return" /\ contains_recursive_call(statements[i].expr, script_name)
    THEN RecursiveExpr(statements, i + 1, script_name, <<statements[i].expr>>)
    ELSE RecursiveExpr(statements, i + 1, script_name, found)

is_tail_recursive(expr, script_name) ==
    /\ expr.tag = "ScriptCall"
    /\ expr.script.tag = "Identifier"
    /\ expr.script.name = script_name
    /\ Len(expr.arguments) = 2

\* the loop the tail-recursive pattern is rewritten to
TailRecursiveStatements ==
    << Define("n", "Int", LocalVar("arg0")),
       Define("acc", "Int", LocalVar("arg1")),
       If(BinaryExpression(LocalVar("n"), NumericLiteral(1), "<="), LocalVar("acc"), Return(LocalVar("acc"))),
       While(BinaryExpression(LocalVar("n"), NumericLiteral(1), ">"),
             Block(<< Assignment(LocalVar("acc"), Calc(LocalVar("n"), "*", LocalVar("acc"))),
                      Assignment(LocalVar("n"), Calc(LocalVar("n"), "-", NumericLiteral(1))) >>)),
       Return(LocalVar("acc")) >>

\* the value the first base case returns, when it is Return(NumericLiteral)
base_case_value(base_cases) ==
    IF base_cases = <<>> THEN 0
    ELSE LET return_statement == base_cases[1].return_statement
         IN  IF return_statement.tag = "Return" /\ return_statement.expr.tag = "NumericLiteral"
             THEN return_statement.expr.n
             ELSE 0

\* an update that keeps the recursive expression as it was
SingleLoopUpdateKeepsCall(expr) == << Assignment(LocalVar("result"), expr) >>

\* a loop that stops one iteration early
SingleLoopConditionExclusive(param_name) == BinaryExpression(LocalVar("i"), LocalVar(param_name), "<")

SingleLoopCondition(param_name) == BinaryExpression(LocalVar("i"), LocalVar(param_name), "<=")

\* result = calc(result <operator> i), when expr is calc(<binary expression>)
SingleLoopUpdate(expr) ==
    IF expr.tag = "FunctionCall" /\ expr.name = "calc" /\ expr.arguments # <<>>
       /\ expr.arguments[1].tag = "BinaryExpression"
    THEN << Assignment(LocalVar("result"), Calc(LocalVar("result"), expr.arguments[1].operator, LocalVar("i"))) >>
    ELSE <<>>

SingleRecursiveStatements(expr, base_cases, param_name) ==
    << Define("result", "Int", NumericLiteral(base_case_value(base_cases))),
       Define("i", "Int", NumericLiteral(1)),
       While(SingleLoopCondition(param_name),
             Block(SingleLoopUpdate(expr)
                   \o << Assignment(LocalVar("i"), Calc(LocalVar("i"), "+", NumericLiteral(1))) >>)),
       Return(LocalVar("result")) >>

DoubleBaseCase(param_name, n, v) ==
    If(BinaryExpression(LocalVar(param_name), NumericLiteral(n), "="), NumericLiteral(v), Return(NumericLiteral(v)))

\* a loop counter that starts one too high
DoubleInitFromThree ==
    << Define("prev", "Int", NumericLiteral(0)),
       Define("curr", "Int", NumericLiteral(1)),
       Define("next", "Int", NumericLiteral(1)),
       Define("i", "Int", NumericLiteral(3)) >>

DoubleInit ==
    << Define("prev", "Int", NumericLiteral(0)),
       Define("curr", "Int", NumericLiteral(1)),
       Define("next", "Int", NumericLiteral(1)),
       Define("i", "Int", NumericLiteral(2)) >>

DoubleLoopBody ==
    Block(<< Assignment(LocalVar("next"), Calc(LocalVar("prev"), "+", LocalVar("curr"))),
             Assignment(LocalVar("prev"), LocalVar("curr")),
             Assignment(LocalVar("curr"), LocalVar("next")),
             Assignment(LocalVar("i"), Calc(LocalVar("i"), "+", NumericLiteral(1))) >>)

DoubleRecursiveStatements(param_name) ==
    << DoubleBaseCase(param_name, 0, 0), DoubleBaseCase(param_name, 1, 1), DoubleBaseCase(param_name, 2, 1) >>
    \o DoubleInit
    \o << While(BinaryExpression(LocalVar("i"), LocalVar(param_name), "<="), DoubleLoopBody),
          Return(LocalVar("curr")) >>

transform_recursive_to_iterative_with_param(node, param_name, script_name) ==
    IF node.tag # "Block" \/ script_name = "" THEN node
    ELSE
    LET base_cases == BaseCases(node.statements, 1)
        recursive_expr == RecursiveExpr(node.statements, 1, script_name, <<>>)
    IN  IF recursive_expr = <<>> \/ base_cases = <<>> THEN node
        ELSE
        LET expr == recursive_expr[1]
            recursive_calls == count_recursive_calls(expr, script_name)
        IN  IF is_tail_recursive(expr, script_name) THEN Block(TailRecursiveStatements)
            ELSE IF has_nested_recursion(expr, script_name) THEN node
            ELSE IF recursive_calls = 1
            THEN Block(base_cases \o SingleRecursiveStatements(expr, base_cases, param_name))
            ELSE IF recursive_calls = 2
            THEN Block(base_cases \o DoubleRecursiveStatements(param_name))
            ELSE node

-----------------------------------------------------------------------------
(* Compiler::compile_script *)

\* the parameter nodes: args.iter().skip(1).step_by(2) that are LocalVar
RECURSIVE ParamNames(_, _)
ParamNames(args, i) ==
    IF i > Len(args) THEN <<>>
    ELSE IF args[i].tag = "LocalVar" THEN <<TrimDollar(args[i].name)>> \o ParamNames(args, i + 2)
    ELSE ParamNames(args, i + 2)

\* a binding that reads the argument after the one it should
ParamBindingShifted(names, i) ==
    IF names = <<>> THEN <<>>
    ELSE [k \in 1..(2 * Len(names)) |->
              IF k % 2 = 1 THEN PushIntLocal(ArgName((k + 1) \div 2)) ELSE PopIntLocal(names[k \div 2])]

\* PushIntLocal("arg<i>"); PopIntLocal(<name>) for each parameter
RECURSIVE ParamBinding(_, _)
ParamBinding(names, i) ==
    IF i > Len(names) THEN <<>>
    ELSE << PushIntLocal(ArgName(i - 1)), PopIntLocal(names[i]) >> \o ParamBinding(names, i + 1)

\* the body that compile_script lowers: the transformed body of a Trigger
TransformedBody(name, ast) ==
    LET names == ParamNames(ast.args, 2)
    IN  IF names # <<>>
        THEN transform_recursive_to_iterative_with_param(ast.body, names[1], name)
        ELSE ast.body

\* the compiled code left as it is
EnsureReturnSkipped(bc) == bc

\* append Return unless the last instruction is one
EnsureReturn(bc) ==
    IF ~bc.ok THEN bc
    ELSE IF bc.instructions # <<>> /\ bc.instructions[Len(bc.instructions)].op = "Return" THEN bc
    ELSE Emit(bc, Simple("Return"))

\* [ok, script_name, instructions]
compile_script(name, ast) ==
    LET bc == IF ast.tag = "Trigger"
              THEN EnsureReturn(compile_node(TransformedBody(name, ast),
                                             [ok |-> TRUE,
                                              instructions |-> ParamBinding(ParamNames(ast.args, 2), 1)]))
              ELSE EnsureReturn(compile_node(ast, [ok |-> TRUE, instructions |-> <<>>]))
    IN  [ok |-> bc.ok, script_name |-> name, instructions |-> bc.instructions]

-----------------------------------------------------------------------------
(* The reference evaluator (evaluator.rs).  Its arithmetic is unchecked:    *)
(* an overflow panics in a build with overflow checks and wraps in one      *)
(* without, so the build is a parameter.                                    *)

Builds == {"debug", "release"}

\* recursion depth and loop iterations the evaluator is followed for
EvalFuel == 6

EmptyMap == [x \in {} |-> 0]
MapGet(m, k) == IF k \in DOMAIN m THEN m[k] ELSE 0
MapInsert(m, k, v) == [x \in DOMAIN m \cup {k} |-> IF x = k THEN v ELSE m[x]]

EvalOk(v, locals) == [ok |-> TRUE, v |-> v, locals |-> locals]
EvalPanic(locals) == [ok |-> FALSE, v |-> 0, locals |-> locals]

\* i32 division truncates toward zero
TruncDiv(a, b) ==
    IF b > 0 THEN (IF a < 0 /\ a % b # 0 THEN (a \div b) + 1 ELSE a \div b)
    ELSE IF b = I32Min THEN (IF a = I32Min THEN 1 ELSE 0)
    ELSE LET q == IF a < 0 /\ a % (-b) # 0 THEN (a \div (-b)) + 1 ELSE a \div (-b) IN -q

\* <<v>>, or <<>> for a panic
EvalOperator(operator, left, right, build) ==
    CASE operator = "+" ->
            IF ~AddOverflows(left, right) THEN <<left + right>>
            ELSE IF build = "debug" THEN <<>> ELSE <<WrappingAdd(left, right)>>
      [] operator = "-" ->
            IF checked_sub(left, right) # <<>> THEN <<left - right>>
            ELSE IF build = "debug" THEN <<>> ELSE <<WrappingSub(left, right)>>
      [] operator = "*" ->
            IF ~MulOverflows(left, right) THEN <<left * right>>
            ELSE IF build = "debug" THEN <<>> ELSE <<WrappingMul(left, right)>>
      [] operator = "/" ->
            IF right = 0 \/ (left = I32Min /\ right = -1) THEN <<>> ELSE <<TruncDiv(left, right)>>
      [] operator = "<=" -> <<IF left <= right THEN 1 ELSE 0>>
      [] operator = ">=" -> <<IF left >= right THEN 1 ELSE 0>>
      [] operator = "<" -> <<IF left < right THEN 1 ELSE 0>>
      [] operator = ">" -> <<IF left > right THEN 1 ELSE 0>>
      [] operator = "=" -> <<IF left = right THEN 1 ELSE 0>>
      [] OTHER -> <<>>

\* the parameters eval_script binds: the LocalVar nodes of Trigger.args, `$` trimmed
RECURSIVE EvalParams(_, _)
EvalParams(args, i) ==
    IF i > Len(args) THEN <<>>
    ELSE IF args[i].tag = "LocalVar" THEN <<TrimDollar(args[i].name)>> \o EvalParams(args, i + 1)
    ELSE EvalParams(args, i + 1)

\* insert param[i] -> value[i] in order, for the shorter of the two
RECURSIVE ZipInsert(_, _, _, _)
ZipInsert(locals, params, values, i) ==
    IF i > Len(params) \/ i > Len(values) THEN locals
    ELSE ZipInsert(MapInsert(locals, params[i], values[i]), params, values, i + 1)

RECURSIVE eval(_, _, _, _, _), EvalBlock(_, _, _, _, _, _, _), EvalWhile(_, _, _, _, _, _, _, _)
RECURSIVE EvalArguments(_, _, _, _, _, _, _), eval_script(_, _, _, _, _, _)

eval(ast, locals, registry, depth, build) ==
    CASE ast.tag = "NumericLiteral" -> EvalOk(ast.n, locals)
      [] ast.tag = "StringLiteral" -> EvalOk(0, locals)
      [] ast.tag = "LocalVar" -> EvalOk(MapGet(locals, TrimDollar(ast.name)), locals)
      [] ast.tag = "BinaryExpression" ->
            LET left == eval(ast.lhs, locals, registry, depth, build)
            IN  IF ~left.ok THEN left
                ELSE LET right == eval(ast.rhs, left.locals, registry, depth, build)
                     IN  IF ~right.ok THEN right
                         ELSE LET r == EvalOperator(ast.operator, left.v, right.v, build)
                              IN  IF r = <<>> THEN EvalPanic(right.locals) ELSE EvalOk(r[1], right.locals)
      [] ast.tag = "Assignment" ->
            IF ast.target.tag # "LocalVar" THEN EvalPanic(locals)
            ELSE LET val == eval(ast.value, locals, registry, depth, build)
                 IN  IF ~val.ok THEN val
                     ELSE EvalOk(val.v, MapInsert(val.locals, TrimDollar(ast.target.name), val.v))
      [] ast.tag = "Define" ->
            LET val == eval(ast.value, locals, registry, depth, build)
            IN  IF ~val.ok THEN val
                ELSE EvalOk(val.v, MapInsert(val.locals, TrimDollar(ast.name), val.v))
      [] ast.tag = "If" ->
            LET condition == eval(ast.expression, locals, registry, depth, build)
            IN  IF ~condition.ok THEN condition
                ELSE IF condition.v # 0
                THEN eval(ast.return_statement, condition.locals, registry, depth, build)
                ELSE eval(ast.value, condition.locals, registry, depth, build)
      [] ast.tag = "While" -> EvalWhile(ast.condition, ast.body, locals, 0, registry, depth, build, EvalFuel)
      [] ast.tag = "Block" -> EvalBlock(ast.statements, 1, locals, 0, registry, depth, build)
      [] ast.tag = "Return" -> eval(ast.expr, locals, registry, depth, build)
      [] ast.tag = "FunctionCall" ->
            IF ast.name = "calc" /\ ast.arguments # <<>>
            THEN eval(ast.arguments[1], locals, registry, depth, build)
            ELSE EvalPanic(locals)
      [] ast.tag = "ScriptCall" ->
            IF ast.script.tag # "Identifier" THEN EvalPanic(locals)
            ELSE LET arg_values == EvalArguments(ast.arguments, 1, <<>>, locals, registry, depth, build)
                 IN  IF ~arg_values.ok THEN arg_values
                     ELSE eval_script(ast.script.name, arg_values.v, arg_values.locals, registry, depth + 1, build)
      [] ast.tag = "Trigger" -> eval(ast.body, locals, registry, depth, build)
      [] OTHER -> EvalOk(0, locals)

\* the Block arm: a Return statement ends the block, an If statement ends it when its value is not 0
EvalBlock(statements, i, locals, last_value, registry, depth, build) ==
    IF i > Len(statements) THEN EvalOk(last_value, locals)
    ELSE LET stmt == statements[i]
         IN  IF stmt.tag = "Return" THEN eval(stmt.expr, locals, registry, depth, build)
             ELSE LET r == eval(stmt, locals, registry, depth, build)
                  IN  IF ~r.ok THEN r
                      ELSE IF stmt.tag = "If"
                      THEN (IF r.v # 0 THEN r
                            ELSE EvalBlock(statements, i + 1, r.locals, last_value, registry, depth, build))
                      ELSE EvalBlock(statements, i + 1, r.locals, r.v, registry, depth, build)

\* the While arm; a loop still running when the fuel is spent never ends
EvalWhile(condition, body, locals, last_value, registry, depth, build, fuel) ==
    LET c == eval(condition, locals, registry, depth, build)
    IN  IF ~c.ok THEN c
        ELSE IF c.v = 0 THEN EvalOk(last_value, c.locals)
        ELSE IF fuel = 0 THEN EvalPanic(c.locals)
        ELSE LET b == eval(body, c.locals, registry, depth, build)
             IN  IF ~b.ok THEN b
                 ELSE EvalWhile(condition, body, b.locals, b.v, registry, depth, build, fuel - 1)

\* the argument values of a ScriptCall, left to right: v is the vector
EvalArguments(arguments, i, arg_values, locals, registry, depth, build) ==
    IF i > Len(arguments) THEN EvalOk(arg_values, locals)
    ELSE LET r == eval(arguments[i], locals, registry, depth, build)
         IN  IF ~r.ok THEN r
             ELSE EvalArguments(arguments, i + 1, Append(arg_values, r.v), r.locals, registry, depth, build)

\* a recursion deeper than the fuel is the stack overflow of an unbounded recursion
eval_script(name, args, locals, registry, depth, build) ==
    IF name \notin DOMAIN registry \/ depth > EvalFuel THEN EvalPanic(locals)
    ELSE LET script == registry[name]
             bound == IF script.tag = "Trigger"
                      THEN ZipInsert(EmptyMap, EvalParams(script.args, 1), args, 1)
                      ELSE EmptyMap
             r == IF script.tag = "Trigger"
                  THEN eval(script.body, bound, registry, depth, build)
                  ELSE eval(script, bound, registry, depth, build)
         IN  [ok |-> r.ok, v |-> r.v, locals |-> locals]

\* the registry after register_script(name, ast) for every named Trigger of the file
TriggerNames(body) ==
    {body[i].name.name : i \in {j \in 1..Len(body) : body[j].tag = "Trigger" /\ body[j].name.tag = "Identifier"}}

LastTrigger(body, name) ==
    body[CHOOSE i \in 1..Len(body) :
            /\ body[i].tag = "Trigger" /\ body[i].name.tag = "Identifier" /\ body[i].name.name = name
            /\ \A j \in (i + 1)..Len(body) :
                  ~(body[j].tag = "Trigger" /\ body[j].name.tag = "Identifier" /\ body[j].name.name = name)]

EvaluatorRegistry(body) == [name \in TriggerNames(body) |-> LastTrigger(body, name)]

-----------------------------------------------------------------------------
(* The virtual machine (vm.rs)                                              *)

max_instructions == 10000000

ResultOk(v) == [ok |-> TRUE, value |-> v, err |-> ""]
ResultErr(e) == [ok |-> FALSE, value |-> 0, err |-> e]
NoResult == [ok |-> FALSE, value |-> 0, err |-> "no call yet"]

NoCall == [name |-> "", args |-> <<>>, old_ip |-> 0, old_script |-> "",
           old_variables |-> EmptyMap, old_stack |-> <<>>, count_before |-> 0, entry |-> <<>>]
NoSub == [script_name |-> "", args |-> <<>>, saved_ip |-> 0, saved_script |-> "",
          saved_variables |-> EmptyMap, saved_stack |-> <<>>]

\* variables after inserting arg<i> for each argument
ArgVariables(args) ==
    [x \in {ArgName(i - 1) : i \in 1..Len(args)} |->
        args[CHOOSE i \in 1..Len(args) : ArgName(i - 1) = x]]

\* stack.pop().unwrap_or(0)
Top(s) == IF s = <<>> THEN 0 ELSE s[Len(s)]
Rest(s) == IF s = <<>> THEN <<>> ELSE SubSeq(s, 1, Len(s) - 1)

Machine(new_ip, new_stack, new_variables) ==
    [ip |-> new_ip, stack |-> new_stack, variables |-> new_variables]

Compare(op, a, b) ==
    CASE op = "BranchGreaterThan" -> a > b
      [] op = "BranchGreaterThanOrEquals" -> a >= b
      [] op = "BranchLessThan" -> a < b
      [] op = "BranchLessThanOrEquals" -> a <= b
      [] op = "BranchEquals" -> a = b

ComparingBranches == {"BranchGreaterThan", "BranchGreaterThanOrEquals", "BranchLessThan",
                      "BranchLessThanOrEquals", "BranchEquals"}

Continue(m) == [kind |-> "Continue", m |-> m, value |-> 0, err |-> ""]
Break(m, e) == [kind |-> "Break", m |-> m, value |-> 0, err |-> e]

\* the arms shared by both interpreter loops: push, pop, checked add and subtract, branches, jump
BasicInstruction(instruction, m) ==
    LET b == Top(m.stack)
        a == Top(Rest(m.stack))
        rest2 == Rest(Rest(m.stack))
    IN  CASE instruction.op = "PushConstantInt" ->
                Continue(Machine(m.ip, Append(m.stack, instruction.n), m.variables))
          [] instruction.op = "PushIntLocal" ->
                Continue(Machine(m.ip, Append(m.stack, MapGet(m.variables, instruction.name)), m.variables))
          [] instruction.op = "PopIntLocal" ->
                Continue(Machine(m.ip, Rest(m.stack), MapInsert(m.variables, instruction.name, Top(m.stack))))
          [] instruction.op = "Add" ->
                IF checked_add(a, b) = <<>> THEN Break(Machine(m.ip, rest2, m.variables), "Integer overflow")
                ELSE Continue(Machine(m.ip, Append(rest2, a + b), m.variables))
          [] instruction.op = "Subtract" ->
                IF checked_sub(a, b) = <<>> THEN Break(Machine(m.ip, rest2, m.variables), "Integer overflow")
                ELSE Continue(Machine(m.ip, Append(rest2, a - b), m.variables))
          [] instruction.op \in ComparingBranches ->
                Continue(Machine(IF Compare(instruction.op, a, b) THEN instruction.target ELSE m.ip,
                                 rest2, m.variables))
          [] instruction.op = "BranchNot" ->
                Continue(Machine(IF Top(m.stack) = 0 THEN instruction.target ELSE m.ip,
                                 Rest(m.stack), m.variables))
          [] instruction.op = "Jump" ->
                Continue(Machine(instruction.target, m.stack, m.variables))
          [] OTHER -> Continue(m)

BasicOps == {"PushConstantInt", "PushIntLocal", "PopIntLocal", "Add", "Subtract", "BranchNot", "Jump"}
                \cup ComparingBranches

\* one arm of the match in the loop of run_script, GosubWithParams excepted; m.ip is already advanced
RunInstruction(instruction, m) ==
    LET b == Top(m.stack)
        a == Top(Rest(m.stack))
        rest2 == Rest(Rest(m.stack))
    IN  CASE instruction.op \in BasicOps -> BasicInstruction(instruction, m)
          [] instruction.op = "Multiply" ->
                IF checked_mul(a, b) = <<>>
                THEN [kind |-> "ReturnErr", m |-> Machine(m.ip, rest2, m.variables), value |-> 0,
                      err |-> "Integer overflow"]
                ELSE Continue(Machine(m.ip, Append(rest2, a * b), m.variables))
          [] instruction.op = "Return" ->
                [kind |-> "Return", m |-> Machine(m.ip, Rest(m.stack), m.variables),
                 value |-> Top(m.stack), err |-> ""]
          [] OTHER -> Continue(m)

\* VM::execute_instruction; the multiplication is unchecked
execute_instruction(instruction, m, build) ==
    LET b == Top(m.stack)
        a == Top(Rest(m.stack))
        rest2 == Rest(Rest(m.stack))
    IN  CASE instruction.op \in BasicOps -> BasicInstruction(instruction, m)
          [] instruction.op = "Multiply" ->
                IF ~MulOverflows(a, b) THEN Continue(Machine(m.ip, Append(rest2, a * b), m.variables))
                ELSE IF build = "debug"
                THEN [kind |-> "Panic", m |-> Machine(m.ip, rest2, m.variables), value |-> 0, err |-> ""]
                ELSE Continue(Machine(m.ip, Append(rest2, WrappingMul(a, b)), m.variables))
          [] OTHER -> Continue(m)

\* the popped arguments left in the order they were popped
PopArgumentsUnreversed(s, num_args) ==
    [i \in 1..num_args |-> IF Len(s) - i + 1 >= 1 THEN s[Len(s) - i + 1] ELSE 0]

\* the arguments GosubWithParams pops, put back in call order; a missing one is 0
PopArguments(s, num_args) ==
    [i \in 1..num_args |-> IF Len(s) - num_args + i >= 1 THEN s[Len(s) - num_args + i] ELSE 0]

AfterArguments(s, num_args) ==
    IF num_args >= Len(s) THEN <<>> ELSE SubSeq(s, 1, Len(s) - num_args)

BudgetError == "Execution exceeded maximum instruction count (" \o ToString(max_instructions) \o ")."

ScriptNotFound(name) == "Script '" \o name \o "' not found"

-----------------------------------------------------------------------------
(* The programs the toolchain is run on, and the calls made on each         *)

FactSrc == "[proc,fact](int $n)(int) if ($n <= 1) { return(1); } return(calc($n * ~fact(calc($n - 1))));"
FibSrc == "[proc,fib](int $n)(int) if ($n = 0) { return(0); } if ($n <= 2) { return(1); } return(calc(~fib(calc($n - 1)) + ~fib(calc($n - 2))));"
SumnSrc == "[proc,sumn](int $n)(int) if ($n <= 0) { return(0); } return(calc($n + ~sumn(calc($n - 1))));"
PowSrc == "[proc,pow](int $base, int $exp)(int) if ($exp = 0) { return(1); } return(calc($base * ~pow($base, calc($exp - 1))));"
TailFactSrc == "[proc,f](int $n, int $acc)(int) if ($n <= 1) { return($acc); } return(~f(calc($n - 1), calc($n * $acc)));"
TailSumSrc == "[proc,f](int $n, int $acc)(int) if ($n <= 0) { return($acc); } return(~f(calc($n - 1), calc($acc + $n)));"
AckSrc == "[proc,f](int $m, int $n)(int) if ($m = 0) { return(calc($n + 1)); } return(~f(calc($m - 1), ~f($m, calc($n - 1))));"
NestSrc == "[proc,f](int $n)(int) if ($n <= 0) { return(1); } return(~f(~f(calc($n - 1))));"
BadSrc == "[proc,bad]()(int) return($a + $b);"
DivSrc == "[proc,bad]()(int) return($a / $b);"
IfLastSrc == "[proc,f]()(int) if (1 = 1) return(1);"
ChainSrc == "[proc,h](int $x)(int) return(calc($x + 1)); [proc,g](int $x)(int) return(~h($x)); [proc,f](int $x)(int) return(~g($x));"

\* tick is one instruction (its Return); spin never leaves its loop; viaspin enters spin by a gosub
BudgetSrc == "[proc,tick]()(int) [proc,spin]()(int) while (1 = 1) { } [proc,viaspin]()(int) return(~spin()); [proc,h](int $x)(int) return(calc($x + 1));"

\* one script per arithmetic instruction, and one that enters it by a gosub
ArithSrc == "[proc,add](int $x, int $y)(int) return(calc($x + $y)); [proc,sub](int $x, int $y)(int) return(calc($x - $y)); [proc,mul](int $x, int $y)(int) return(calc($x * $y)); [proc,div](int $x, int $y)(int) return(calc($x / $y)); [proc,viaadd](int $x, int $y)(int) return(~add($x, $y)); [proc,viasub](int $x, int $y)(int) return(~sub($x, $y)); [proc,viamul](int $x, int $y)(int) return(~mul($x, $y));"
\* operands: in range for every operator; a + b, a - b and a * b out of range; a divisor of 0
ArithPairs == {<<3, 4>>, <<7, 2>>, <<I32Max, 1>>, <<I32Min, 1>>, <<65536, 65536>>, <<1, 0>>}
\* '=' in a declaration, in an assignment, and in the condition of an if
LexSrc == "[proc,lex](int $x)(int) def_int $i = 0; while ($i < 3) { $i = calc($i + 1); } $x = calc($x + 1); if ($x = 3) { return(1); } return($i);"
\* an if whose block returns, followed by a further statement
IfRetSrc == "[proc,t](int $x)(int) if ($x = 1) { return(5); } return(7);"
\* a single recursion whose if statement itself calls the script
SelfBaseSrc == "[proc,f](int $n)(int) if ($n <= 0) return(~f(1)); return(calc($n + ~f(calc($n - 1))));"
\* two parameters, read in the body
AddSrc == "[proc,add](int $a, int $b)(int) return(calc($a + $b));"
\* the same declaration under each trigger kind the lexer knows
TriggerKinds == {"proc", "clientscript", "label", "debugproc"}
KindSrc(kind) == "[" \o kind \o ",t]()(int) return(1);"
TriggerKindSources == {KindSrc(kind) : kind \in TriggerKinds}
\* a caller with a local and a pending operand at the call, and a callee that writes a
\* local of the same name
FrameSrc == "[proc,callee](int $p, int $q)(int) def_int $v = 9; return(calc($p - $q)); [proc,caller](int $a, int $b)(int) def_int $v = 1; return(calc($v + ~callee($a, $b)));"
\* a counting loop
LoopSrc == "[proc,loop]()(int) def_int $i = 0; def_int $s = 0; while ($i <= 10) { $s = calc($s + $i); $i = calc($i + 1); } return($s);"
\* inputs that open with a block comment: properly nested, unterminated at the end of the
\* input, and two in which a '/' or '*' stands between two delimiters
NestedCommentSrc == "/* a /* b */ c */ [proc,t]()(int) return(1);"
UnterminatedCommentSrc == "/* a /* b */"
SharedStarCommentSrc == "/* a /*/ b */ [proc,t]()(int) return(1);"
SharedSlashCommentSrc == "/* /* a */* b */ */ [proc,t]()(int) return(1);"
BlockCommentSources == {NestedCommentSrc, UnterminatedCommentSrc, SharedStarCommentSrc, SharedSlashCommentSrc}
\* programs of several lines: newlines after ordinary tokens, after a line comment, and
\* inside a block comment
PlainLinesSrc == "[proc,t]()(int)\ndef_int $a = 1;\nreturn($a);"
LineCommentSrc == "[proc,t]()(int)\n// one\nreturn(1);"
BlockLinesSrc == "[proc,t]()(int)\n/* two\nlines */\nreturn(1);"
LineSources == {PlainLinesSrc, LineCommentSrc, BlockLinesSrc}

NestedSources == {AckSrc, NestSrc}
UngatedSources == {BadSrc, DivSrc}
TailSources == {TailFactSrc, TailSumSrc}
\* the programs the evaluator is run on as the reference
ReferenceSources == {PowSrc} \cup TailSources
Sources == {FactSrc, FibSrc, SumnSrc, PowSrc, IfLastSrc, ChainSrc, BudgetSrc, ArithSrc, LexSrc, IfRetSrc,
            SelfBaseSrc, AddSrc, FrameSrc, LoopSrc}
               \cup NestedSources \cup UngatedSources \cup TailSources \cup TriggerKindSources
               \cup BlockCommentSources \cup LineSources

MaxFact == 12
MaxFib == 20
MaxSumn == 100
MaxPow == 3
MaxTail == 4
MaxNested == 2
MaxChainArg == 1
MaxCalls == 3
MaxBudgetLeft == 8
MaxBudgetCalls == 2

\* the <<name, args>> a driver passes to run_script
Inputs(src) ==
    CASE src = FactSrc -> {<<"fact", <<n>>>> : n \in 0..MaxFact}
      [] src = FibSrc -> {<<"fib", <<n>>>> : n \in 0..MaxFib}
      [] src = SumnSrc -> {<<"sumn", <<n>>>> : n \in 0..MaxSumn}
      [] src = PowSrc -> {<<"pow", <<base, exp>>>> : base \in 0..MaxPow, exp \in 0..MaxPow}
      [] src \in TailSources -> {<<"f", <<n, acc>>>> : n \in 0..MaxTail, acc \in 0..MaxTail}
      [] src = AckSrc -> {<<"f", <<m, n>>>> : m \in 0..MaxNested, n \in 0..MaxNested}
      [] src = NestSrc -> {<<"f", <<n>>>> : n \in 0..MaxNested}
      [] src \in UngatedSources -> {<<"bad", <<>>>>}
      [] src = IfLastSrc -> {<<"f", <<>>>>}
      [] src = ChainSrc -> {<<name, <<x>>>> : name \in {"f", "g", "h"}, x \in 0..MaxChainArg}
      [] src = ArithSrc ->
            {<<name, pair>> : name \in {"add", "sub", "mul", "div", "viaadd", "viasub", "viamul"},
                              pair \in ArithPairs}
      [] src = LexSrc -> {<<"lex", <<0>>>>, <<"lex", <<2>>>>}
      [] src = IfRetSrc -> {<<"t", <<0>>>>, <<"t", <<1>>>>}
      [] src = SelfBaseSrc -> {<<"f", <<0>>>>, <<"f", <<2>>>>}
      [] src = AddSrc -> {<<"add", <<2, 3>>>>, <<"add", <<3, 4>>>>}
      [] src \in TriggerKindSources -> {<<"t", <<>>>>}
      [] src = FrameSrc -> {<<"caller", <<7, 2>>>>, <<"callee", <<7, 2>>>>, <<"caller", <<2, 7>>>>,
                            <<"caller", <<I32Min, 1>>>>}
      [] src = LoopSrc -> {<<"loop", <<>>>>}
      [] src \in BlockCommentSources \cup LineSources -> {<<"t", <<>>>>}
      [] src = BudgetSrc -> {<<"tick", <<>>>>, <<"spin", <<>>>>, <<"viaspin", <<>>>>, <<"h", <<1>>>>}
      [] OTHER -> {}

\* the command line driver makes one call on a fresh VM; a VM used as a library is called repeatedly
CallLimit(src) ==
    IF src \in {ChainSrc, FrameSrc} THEN MaxCalls
    ELSE IF src = BudgetSrc THEN MaxBudgetCalls
    ELSE 1

\* the calls on BudgetSrc are followed on a VM that has already used up all but a few instructions
Served(src) == src = BudgetSrc => instruction_count >= max_instructions - MaxBudgetLeft

-----------------------------------------------------------------------------
(* The state machine                                                        *)

NoEval == [done |-> FALSE, ok |-> FALSE, v |-> 0]

\* the tuple run_script snapshots
Frame == <<ip, current_script, variables, stack>>

Completed(name, args, res, count_before, count_after, frame_before, frame_after) ==
    [name |-> name, args |-> args, result |-> res,
     count_before |-> count_before, count_after |-> count_after,
     frame_before |-> frame_before, frame_after |-> frame_after]

\* VM::new, and a source not yet processed
Init ==
    /\ phase = "new"
    /\ source \in Sources
    /\ asts = <<>>
    /\ scripts = EmptyMap
    /\ ip = 0
    /\ stack = <<>>
    /\ variables = EmptyMap
    /\ current_script = ""
    /\ instruction_count = 0
    /\ memo_cache = EmptyMap
    /\ call = NoCall
    /\ sub = NoSub
    /\ result = NoResult
    /\ evaluated = NoEval
    /\ history = <<>>

\* every named Trigger compiled: name -> compile_script's ByteCode (a later one replaces an earlier)
CompileAll(body) == [name \in TriggerNames(body) |-> compile_script(name, LastTrigger(body, name))]

\* process_rs2_file: lex, then parse
process_rs2_file(src) == Try(tokenize(src), LAMBDA lexed : parse(lexed.tokens))

\* the registry once every compiled script is registered; a panic of the compiler leaves none
Registered(parsed, compiled) ==
    [good |-> parsed.ok /\ \A name \in DOMAIN compiled : compiled[name].ok,
     body |-> IF parsed.ok THEN parsed.body ELSE <<>>,
     scripts |-> IF parsed.ok /\ \A name \in DOMAIN compiled : compiled[name].ok
                 THEN [name \in DOMAIN compiled |-> compiled[name].instructions]
                 ELSE EmptyMap]

Toolchain(parsed) == Registered(parsed, IF parsed.ok THEN CompileAll(parsed.body) ELSE EmptyMap)

Install(loaded) ==
    /\ phase' = IF loaded.good THEN "idle" ELSE "failed"
    /\ asts' = loaded.body
    /\ scripts' = loaded.scripts

\* process_rs2_file, then compile_script and register_script for every Trigger of the file
Load ==
    /\ phase = "new"
    /\ Install(Toolchain(process_rs2_file(source)))
    /\ UNCHANGED <<source, ip, stack, variables, current_script, instruction_count, memo_cache,
                   call, sub, result, evaluated, history>>

\* the end of run_script: the snapshot is restored and the result returned
Leave(res, cnt, cache) ==
    /\ phase' = "idle"
    /\ ip' = call.old_ip
    /\ current_script' = call.old_script
    /\ variables' = call.old_variables
    /\ stack' = call.old_stack
    /\ instruction_count' = cnt
    /\ memo_cache' = cache
    /\ result' = res
    /\ history' = Append(history, Completed(call.name, call.args, res, call.count_before, cnt,
                                            call.entry, Frame'))
    /\ call' = NoCall
    /\ sub' = NoSub
    /\ UNCHANGED <<source, asts, scripts, evaluated>>

\* the `return Err` of the Multiply arm: nothing is restored
ReturnEarly(res, m, cnt) ==
    /\ phase' = "idle"
    /\ ip' = m.ip
    /\ stack' = m.stack
    /\ variables' = m.variables
    /\ current_script' = current_script
    /\ instruction_count' = cnt
    /\ result' = res
    /\ history' = Append(history, Completed(call.name, call.args, res, call.count_before, cnt,
                                            call.entry, Frame'))
    /\ call' = NoCall
    /\ sub' = NoSub
    /\ UNCHANGED <<source, asts, scripts, evaluated, memo_cache>>

\* the head of the loop of run_script: `while self.ip < instructions.len()`
Proceed(m, script, cnt, cache) ==
    IF m.ip < Len(scripts[call.name])
    THEN /\ phase' = "top"
         /\ ip' = m.ip
         /\ stack' = m.stack
         /\ variables' = m.variables
         /\ current_script' = script
         /\ instruction_count' = cnt
         /\ memo_cache' = cache
         /\ sub' = NoSub
         /\ UNCHANGED <<source, asts, scripts, call, result, evaluated, history>>
    ELSE Leave(ResultOk(0), cnt, cache)

\* the process aborts
Abort(cnt) ==
    /\ phase' = "panic"
    /\ instruction_count' = cnt
    /\ UNCHANGED <<source, asts, scripts, ip, stack, variables, current_script, memo_cache,
                   call, sub, result, evaluated, history>>

\* max_instructions - left consecutive run_script("tick", []) calls on the new VM, taken in one
\* step: each executes the one Return of tick, returns Ok(0) and restores what it found
Serve ==
    /\ phase = "idle"
    /\ source = BudgetSrc
    /\ history = <<>>
    /\ instruction_count = 0
    /\ "tick" \in DOMAIN scripts
    /\ scripts["tick"] = << Simple("Return") >>
    /\ <<"tick", <<>>>> \notin DOMAIN memo_cache
    /\ \E left \in 0..MaxBudgetLeft : instruction_count' = max_instructions - left
    /\ variables' = ArgVariables(<<>>)
    /\ result' = ResultOk(0)
    /\ UNCHANGED <<phase, source, asts, scripts, ip, stack, current_script, memo_cache,
                   call, sub, evaluated, history>>

\* run_script up to its loop
RunScript(name, args) ==
    /\ phase = "idle"
    /\ Len(history) < CallLimit(source)
    /\ Served(source)
    /\ evaluated' = NoEval
    /\ UNCHANGED <<source, asts, scripts, memo_cache, instruction_count, sub>>
    /\ variables' = ArgVariables(args)
    /\ IF <<name, args>> \in DOMAIN memo_cache \/ name \notin DOMAIN scripts
       THEN /\ result' = IF <<name, args>> \in DOMAIN memo_cache
                         THEN ResultOk(memo_cache[<<name, args>>])
                         ELSE ResultErr(ScriptNotFound(name))
            /\ UNCHANGED <<phase, ip, stack, current_script, call>>
            /\ history' = Append(history, Completed(name, args, result', instruction_count,
                                                    instruction_count, Frame, Frame'))
       ELSE IF Len(scripts[name]) = 0
       THEN /\ result' = ResultOk(0)
            /\ UNCHANGED <<phase, ip, stack, current_script, call>>
            /\ history' = Append(history, Completed(name, args, result', instruction_count,
                                                    instruction_count, Frame, Frame'))
       ELSE /\ call' = [name |-> name, args |-> args, old_ip |-> ip, old_script |-> current_script,
                        old_variables |-> ArgVariables(args), old_stack |-> stack,
                        count_before |-> instruction_count, entry |-> Frame]
            /\ phase' = "top"
            /\ ip' = 0
            /\ current_script' = name
            /\ stack' = <<>>
            /\ UNCHANGED <<result, history>>

\* the end of the GosubWithParams arm: the saved state is restored, the value pushed and cached
\* a return from the callee that caches its value whether it succeeded or not
SubLeaveCachingErrors(frame, script_result, cnt) ==
    IF script_result.ok
    THEN Proceed(Machine(frame.saved_ip, Append(frame.saved_stack, script_result.value),
                         frame.saved_variables),
                 frame.saved_script, cnt,
                 MapInsert(memo_cache, <<frame.script_name, frame.args>>, script_result.value))
    ELSE Leave(script_result, cnt,
               MapInsert(memo_cache, <<frame.script_name, frame.args>>, script_result.value))

SubLeave(frame, script_result, cnt) ==
    IF script_result.ok
    THEN Proceed(Machine(frame.saved_ip, Append(frame.saved_stack, script_result.value),
                         frame.saved_variables),
                 frame.saved_script, cnt,
                 MapInsert(memo_cache, <<frame.script_name, frame.args>>, script_result.value))
    ELSE Leave(script_result, cnt, memo_cache)

\* a budget that is never found spent
BudgetNeverExceeded == FALSE

\* a budget test that lets one instruction too many through
BudgetExceededLate == instruction_count > max_instructions

\* `self.instruction_count >= self.max_instructions`, the test at the head of both loops
BudgetExceeded == instruction_count >= max_instructions

\* one iteration of the loop of run_script on an instruction other than GosubWithParams
Step ==
    /\ phase = "top"
    /\ scripts[call.name][ip + 1].op # "GosubWithParams"
    /\ IF BudgetExceeded
       THEN Leave(ResultErr(BudgetError), instruction_count, memo_cache)
       ELSE LET o == RunInstruction(scripts[call.name][ip + 1], Machine(ip + 1, stack, variables))
                cnt == instruction_count + 1
            IN  CASE o.kind = "Continue" -> Proceed(o.m, current_script, cnt, memo_cache)
                  [] o.kind = "Break" -> Leave(ResultErr(o.err), cnt, memo_cache)
                  [] o.kind = "Return" -> Leave(ResultOk(o.value), cnt, memo_cache)
                  [] o.kind = "ReturnErr" -> ReturnEarly(ResultErr(o.err), o.m, cnt)

\* one iteration of the loop of run_script on GosubWithParams, up to the loop of the callee
Gosub ==
    /\ phase = "top"
    /\ scripts[call.name][ip + 1].op = "GosubWithParams"
    /\ IF BudgetExceeded
       THEN Leave(ResultErr(BudgetError), instruction_count, memo_cache)
       ELSE LET script_name == scripts[call.name][ip + 1].name
                cnt == instruction_count + 1
                num_args == Top(stack)
                args == PopArguments(Rest(stack), num_args)
                rest == AfterArguments(Rest(stack), num_args)
                frame == [script_name |-> script_name, args |-> args, saved_ip |-> ip + 1,
                          saved_script |-> current_script, saved_variables |-> variables,
                          saved_stack |-> rest]
            IN  IF num_args < 0 THEN Abort(cnt)
                ELSE IF <<script_name, args>> \in DOMAIN memo_cache
                THEN Proceed(Machine(ip + 1, Append(rest, memo_cache[<<script_name, args>>]), variables),
                             current_script, cnt, memo_cache)
                ELSE IF script_name \notin DOMAIN scripts
                THEN Leave(ResultErr(ScriptNotFound(script_name)), cnt, memo_cache)
                ELSE IF Len(scripts[script_name]) = 0
                THEN SubLeave(frame, ResultOk(0), cnt)
                ELSE /\ phase' = "sub"
                     /\ sub' = frame
                     /\ ip' = 0
                     /\ current_script' = script_name
                     /\ variables' = ArgVariables(args)
                     /\ stack' = <<>>
                     /\ instruction_count' = cnt
                     /\ UNCHANGED <<source, asts, scripts, memo_cache, call, result, evaluated, history>>

\* one iteration of the loop of the GosubWithParams arm
SubStep ==
    /\ phase = "sub"
    /\ \E build \in Builds :
          IF BudgetExceeded
          THEN SubLeave(sub, ResultErr(BudgetError), instruction_count)
          ELSE LET script_instructions == scripts[sub.script_name]
                   instruction == script_instructions[ip + 1]
                   cnt == instruction_count + 1
                   o == execute_instruction(instruction, Machine(ip + 1, stack, variables), build)
               IN  IF instruction.op = "Return" THEN SubLeave(sub, ResultOk(Top(stack)), cnt)
                   ELSE CASE o.kind = "Continue" ->
                                IF o.m.ip < Len(script_instructions)
                                THEN /\ ip' = o.m.ip
                                     /\ stack' = o.m.stack
                                     /\ variables' = o.m.variables
                                     /\ instruction_count' = cnt
                                     /\ UNCHANGED <<phase, source, asts, scripts, current_script,
                                                    memo_cache, call, sub, result, evaluated, history>>
                                ELSE SubLeave(sub, ResultOk(0), cnt)
                          [] o.kind = "Break" -> SubLeave(sub, ResultErr(o.err), cnt)
                          [] o.kind = "Panic" -> Abort(cnt)

\* Evaluator::eval_script on the call run_script just completed, every Trigger registered
EvalScript ==
    /\ phase = "idle"
    /\ source \in ReferenceSources
    /\ history # <<>>
    /\ ~evaluated.done
    /\ \E build \in Builds :
          LET last == history[Len(history)]
              r == eval_script(last.name, last.args, EmptyMap, EvaluatorRegistry(asts), 0, build)
          IN  evaluated' = [done |-> TRUE, ok |-> r.ok, v |-> r.v]
    /\ UNCHANGED <<phase, source, asts, scripts, ip, stack, variables, current_script,
                   instruction_count, memo_cache, call, sub, result, history>>

Next ==
    \/ Load
    \/ \E c \in Inputs(source) : RunScript(c[1], c[2])
    \/ Step
    \/ Gosub
    \/ SubStep
    \/ EvalScript
    \/ Serve

Spec == Init /\ [][Next]_vars

\* the interpreter is a running loop: a call that has started takes its next iteration
LiveSpec == Spec /\ WF_vars(Step) /\ WF_vars(Gosub) /\ WF_vars(SubStep)

-----------------------------------------------------------------------------
(* Properties                                                               *)

\* mathematical references
RECURSIVE Factorial(_)
Factorial(n) == IF n <= 1 THEN 1 ELSE n * Factorial(n - 1)

RECURSIVE Fibonacci(_)
Fibonacci(n) == IF n = 0 THEN 0 ELSE IF n <= 2 THEN 1 ELSE Fibonacci(n - 1) + Fibonacci(n - 2)

Calls == 1..Len(history)
ArithmeticOps == {"Add", "Subtract", "Multiply", "Divide"}
Instructions(name) == {scripts[name][i] : i \in 1..Len(scripts[name])}

\* C1: the fact script compiles, and every completed run_script("fact", [n]) with n! in int32
\* returned Ok(n!); fact 6 returned 720.
C1_FactReturnsFactorial ==
    source = FactSrc =>
        /\ phase # "failed"
        /\ \A i \in Calls : history[i].args[1] <= 12 =>
              history[i].result = ResultOk(Factorial(history[i].args[1]))

\* C2: the fib script compiles, and every completed run_script("fib", [n]) with n in 0..20
\* returned Ok(F(n)); no run aborts the process.
C2_FibReturnsFibonacci ==
    source = FibSrc =>
        /\ phase \notin {"failed", "panic"}
        /\ \A i \in Calls : history[i].result = ResultOk(Fibonacci(history[i].args[1]))

C2_Fib20Returned6765 ==
    /\ source = FibSrc
    /\ history # <<>>
    /\ history[1].name = "fib"
    /\ history[1].args = <<20>>
    /\ history[1].result = ResultOk(6765)

\* C3: the sumn script compiles, and every completed run_script("sumn", [n]) with n in 0..100
\* returned Ok(n * (n + 1) / 2); no run aborts the process.
C3_SumnReturnsTriangular ==
    source = SumnSrc =>
        /\ phase \notin {"failed", "panic"}
        /\ \A i \in Calls :
              history[i].result = ResultOk((history[i].args[1] * (history[i].args[1] + 1)) \div 2)

C3_Sumn100Returned5050 ==
    /\ source = SumnSrc
    /\ history # <<>>
    /\ history[1].name = "sumn"
    /\ history[1].args = <<100>>
    /\ history[1].result = ResultOk(5050)

\* C4: for the pow script, what run_script("pow", [base, exp]) returned is what the evaluator
\* returns for the original recursive AST on the same arguments.
C4_PowMatchesEvaluator ==
    (source = PowSrc /\ evaluated.done) =>
        /\ evaluated.ok
        /\ result = ResultOk(evaluated.v)

\* C5: for the two tail-recursive accumulator scripts, what run_script("f", [n, acc]) returned is
\* what the evaluator returns for the original recursive script (stated here for acc >= 1).
C5_TailMatchesEvaluator ==
    (source \in TailSources /\ evaluated.done /\ history[Len(history)].args[2] >= 1) =>
        /\ evaluated.ok
        /\ result = ResultOk(evaluated.v)

\* C6: a script whose trailing return nests a self call in the arguments of a self call is left
\* unchanged by the recursion pass, and its bytecode still holds GosubWithParams of itself.
C6_NestedRecursionLeftUnchanged ==
    (source \in NestedSources /\ phase # "new") =>
        /\ phase # "failed"
        /\ TransformedBody("f", asts[1]) = asts[1].body
        /\ GosubWithParams("f") \in Instructions("f")

\* C7: a source with an arithmetic BinaryExpression outside calc fails to compile, and no script
\* holding Add, Subtract, Multiply or Divide is registered for it.
C7_UngatedArithmeticRejected ==
    (source \in UngatedSources /\ phase # "new") =>
        /\ phase = "failed"
        /\ \A name \in DOMAIN scripts : \A instruction \in Instructions(name) :
              instruction.op \notin ArithmeticOps

\* C8: in every registered script, the target of every branch and jump is an index of that script.
C8_BranchTargetsInRange ==
    \A name \in DOMAIN scripts : \A instruction \in Instructions(name) :
        instruction.op \in BranchOps \cup {"Jump"} =>
            (0 <= instruction.target /\ instruction.target < Len(scripts[name]))

\* C9: when a call returned Ok(v), the next call with the same name and arguments returns Ok(v)
\* and leaves instruction_count as it found it.
C9_RepeatServedFromCache ==
    \A i \in Calls : \A j \in Calls :
        (j = i + 1 /\ history[i].result.ok
         /\ history[j].name = history[i].name /\ history[j].args = history[i].args) =>
            /\ history[j].result = history[i].result
            /\ history[j].count_after = history[j].count_before

\* C10: two completed calls with the same name and arguments returned equal results, whatever
\* was called in between.
C10_RepeatedCallsAgree ==
    \A i \in Calls : \A j \in Calls :
        (history[j].name = history[i].name /\ history[j].args = history[i].args) =>
            history[j].result = history[i].result

\* C11: a call of the script `while (1 = 1) { }`, made directly or entered through
\* GosubWithParams, ends: it returns the budget error, and instruction_count never passes
\* max_instructions; every call that has started returns (or the process aborts).
C11_RunawayCallsReturnBudgetError ==
    \A i \in Calls :
        (source = BudgetSrc /\ history[i].name \in {"spin", "viaspin"}) =>
            /\ history[i].result = ResultErr(BudgetError)
            /\ history[i].count_after <= max_instructions
            /\ history[i].count_after - history[i].count_before <= max_instructions

C11_RunawayScriptTerminates ==
    /\ [](instruction_count <= max_instructions /\ C11_RunawayCallsReturnBudgetError)
    /\ (phase \in {"top", "sub"}) ~> (phase \in {"idle", "panic"})

C11_SpinRanIntoBudget ==
    /\ source = BudgetSrc
    /\ \E i \in Calls : \E j \in Calls :
          /\ history[i].name = "spin" /\ history[j].name = "viaspin"
          /\ history[i].result = ResultErr(BudgetError)
          /\ history[j].result = ResultErr(BudgetError)
          /\ history[i].count_before = max_instructions - MaxBudgetLeft
          /\ history[i].count_after = max_instructions

\* C12: the budget is counted per call: a call of h (6 instructions) or tick (1 instruction) does
\* not fail with the budget error, whatever earlier calls on the VM have executed.
C12_BudgetCountedPerCall ==
    \A i \in Calls :
        (source = BudgetSrc /\ history[i].name \in {"h", "tick"}) =>
            history[i].result # ResultErr(BudgetError)

\* C13: after a call returned an error, a following call of the terminating script h returns
\* Ok(x + 1) and one of tick returns Ok(0), as each does on a new VM.
C13_ReusableAfterError ==
    \A i \in Calls : \A j \in Calls :
        (source = BudgetSrc /\ i < j /\ ~history[i].result.ok) =>
            /\ history[j].name = "h" => history[j].result = ResultOk(history[j].args[1] + 1)
            /\ history[j].name = "tick" => history[j].result = ResultOk(0)

\* C14: every completed run_script call, whatever it returned, left (ip, current_script,
\* variables, stack) as they were immediately before the call.
C14_CallRestoresFrame ==
    \A i \in Calls : history[i].frame_after = history[i].frame_before

\* C15: every '=' the lexer reads inside the parenthesised condition of an if or a while
\* becomes a ComparisonOperator token, and every other '=' (assignment, declaration)
\* becomes an Equals token.
C15_EqualsKindFollowsContext ==
    (phase = "idle" /\ history = <<>>) =>
        LET tokens == tokenize(source).tokens
            Depth(from, to) ==
                Cardinality({k \in from..to : tokens[k].kind = "LParen"})
                    - Cardinality({k \in from..to : tokens[k].kind = "RParen"})
            InCondition(i) ==
                \E j \in 1..(i - 2) :
                    /\ tokens[j].kind \in {"If", "While"}
                    /\ tokens[j + 1].kind = "LParen"
                    /\ \A k \in (j + 1)..(i - 1) : Depth(j + 1, k) > 0
        IN  \A i \in 1..Len(tokens) :
                tokens[i].value = "=" =>
                    tokens[i].kind = (IF InCondition(i) THEN "ComparisonOperator" ELSE "Equals")

\* C16: for `if (cond) { return(e); }` followed by further statements the parser keeps
\* Return(e) in the return_statement slot of the If, the compiler emits the code of e and a
\* Return between the BranchNot and the Jump, and a run returns the value of e when cond is
\* true and the value of the following statements when it is false.
C16_IfBlockReturnTakesEffect ==
    (source = IfRetSrc /\ phase = "idle") =>
        /\ asts[1].body.statements[1].tag = "If"
        /\ asts[1].body.statements[1].return_statement = Return(NumericLiteral(5))
        /\ \E j \in 1..(Len(scripts["t"]) - 3) :
                /\ scripts["t"][j].op = "BranchNot"
                /\ scripts["t"][j + 1] = PushConstantInt(5)
                /\ scripts["t"][j + 2] = Simple("Return")
                /\ scripts["t"][j + 3].op = "Jump"
        /\ \A i \in Calls :
                history[i].result = ResultOk(IF history[i].args[1] = 1 THEN 5 ELSE 7)

\* C17: Add, Subtract and Multiply leave a op b of the two topmost operands, and a result
\* outside int32 makes run_script return the overflow error instead of a value, in the
\* called script and in a script entered through GosubWithParams alike.
C17_ArithmeticIsChecked ==
    source = ArithSrc =>
        /\ phase # "panic"
        /\ \A i \in Calls :
                LET a == history[i].args[1]
                    b == history[i].args[2]
                    checked == CASE history[i].name \in {"add", "viaadd"} -> checked_add(a, b)
                                 [] history[i].name \in {"sub", "viasub"} -> checked_sub(a, b)
                                 [] history[i].name \in {"mul", "viamul"} -> checked_mul(a, b)
                                 [] OTHER -> <<>>
                IN  history[i].name # "div" =>
                        history[i].result = (IF checked = <<>> THEN ResultErr("Integer overflow")
                                             ELSE ResultOk(checked[1]))

\* C18: Divide leaves the integer quotient a / b of the two topmost operands, so a script
\* returning calc(a / b) returns that quotient, and a divisor of 0 makes run_script return
\* an error instead of a value.
C18_DivideYieldsQuotient ==
    source = ArithSrc =>
        \A i \in Calls :
            history[i].name = "div" =>
                IF history[i].args[2] = 0 THEN ~history[i].result.ok
                ELSE history[i].result = ResultOk(TruncDiv(history[i].args[1], history[i].args[2]))

C20_CompiledScriptEndsInReturn ==
    /\ \A name \in DOMAIN scripts :
            scripts[name] # <<>> /\ scripts[name][Len(scripts[name])] = Simple("Return")
    /\ (phase = "idle" /\ history = <<>>) =>
            \A i \in 1..Len(asts) :
                \A ast \in {asts[i], asts[i].body}
                            \cup {asts[i].body.statements[k] : k \in 1..Len(asts[i].body.statements)} :
                    compile_script(asts[i].name.name, ast).ok =>
                        /\ compile_script(asts[i].name.name, ast).instructions # <<>>
                        /\ compile_script(asts[i].name.name, ast).instructions[
                                Len(compile_script(asts[i].name.name, ast).instructions)] = Simple("Return")

\* the scripts of the budget program are compiled: spin has no return statement and
\* tick has no statement at all, and both end in the Return the compiler appended; the
\* while statement of spin, compiled on its own as a script, ends in Return too
C20_ReturnAppendedToSpin ==
    /\ phase = "idle" /\ history = <<>> /\ source = BudgetSrc
    /\ asts[1].body.statements = <<>>
    /\ scripts["tick"] = << Simple("Return") >>
    /\ Len(asts[2].body.statements) = 1 /\ asts[2].body.statements[1].tag = "While"
    /\ scripts["spin"][Len(scripts["spin"])] = Simple("Return")
    /\ \A k \in 1..(Len(scripts["spin"]) - 1) : scripts["spin"][k] # Simple("Return")
    /\ compile_script("", asts[2].body.statements[1]).ok
    /\ compile_script("", asts[2].body.statements[1]).instructions = scripts["spin"]

\* C21: the bytecode of a script declared with parameters p0, p1, ... starts with
\* PushIntLocal("arg<i>"); PopIntLocal(<pi without $>) for each parameter in declaration
\* order; once that entry code has run, each parameter holds the argument of its position;
\* and add, declared (int $a, int $b) and returning calc($a + $b), run with 2 3 returns 5.
C21_ParametersBoundToArguments ==
    /\ (phase = "idle" /\ history = <<>>) =>
            \A i \in 1..Len(asts) :
                \A q \in 1..(Len(asts[i].args) \div 2) :
                    /\ asts[i].args[2 * q].tag = "LocalVar"
                    /\ scripts[asts[i].name.name][2 * q - 1] = PushIntLocal("arg" \o ToString(q - 1))
                    /\ scripts[asts[i].name.name][2 * q] = PopIntLocal(asts[i].args[2 * q].name)
                    /\ \A c \in 1..Len(asts[i].args[2 * q].name) :
                            SubSeq(asts[i].args[2 * q].name, c, c) # "$"
    /\ phase = "top" =>
            \A i \in 1..Len(asts) :
                (/\ asts[i].name.name = call.name
                 /\ instruction_count = call.count_before + Len(asts[i].args)) =>
                    \A q \in 1..(Len(asts[i].args) \div 2) :
                        MapGet(variables, asts[i].args[2 * q].name) = call.args[q]
    /\ source = AddSrc =>
            \A i \in Calls : history[i].result = ResultOk(history[i].args[1] + history[i].args[2])

\* add(2, 3) has been run on the compiled two-parameter script and returned 5
C21_AddOfTwoAndThreeReturnedFive ==
    /\ source = AddSrc /\ phase = "idle" /\ Len(history) = 1
    /\ SubSeq(scripts["add"], 1, 4)
            = << PushIntLocal("arg0"), PopIntLocal("a"), PushIntLocal("arg1"), PopIntLocal("b") >>
    /\ history[1].name = "add" /\ history[1].args = <<2, 3>>
    /\ history[1].result = ResultOk(5)

\* C22: a declaration [kind,name] parses into a Trigger node for each of the trigger
\* kinds proc, clientscript, label and debugproc.
C22_EveryTriggerKindParses ==
    (source \in TriggerKindSources /\ phase # "new") =>
        /\ phase # "failed"
        /\ Len(asts) = 1
        /\ asts[1].tag = "Trigger"
        /\ asts[1].name = Identifier("t")

\* C23: a GosubWithParams of the top-level script hands the callee the k arguments below
\* the count as arg0..arg(k-1) in the order they were pushed, keeps the caller's next ip,
\* current_script, variables and its stack below the arguments while the callee runs, and
\* on a successful return (or a memo-cache hit) the caller has exactly these again, with
\* the callee's value pushed on that stack.
C23_GosubKeepsCallerFrame ==
    [][/\ (phase = "top" /\ phase' = "sub") =>
             LET k == Top(stack)
             IN  /\ k >= 0 /\ Len(stack) >= k + 1
                 /\ sub'.script_name = scripts[call.name][ip + 1].name
                 /\ current_script' = sub'.script_name
                 /\ DOMAIN variables' = {"arg" \o ToString(j) : j \in 0..(k - 1)}
                 /\ \A j \in 0..(k - 1) : variables'["arg" \o ToString(j)] = stack[Len(stack) - k + j]
                 /\ sub'.saved_ip = ip + 1
                 /\ sub'.saved_script = current_script
                 /\ sub'.saved_variables = variables
                 /\ sub'.saved_stack = SubSeq(stack, 1, Len(stack) - k - 1)
       /\ (phase = "sub" /\ phase' = "sub") => sub' = sub
       /\ (phase = "sub" /\ phase' = "top") =>
             /\ ip' = sub.saved_ip
             /\ current_script' = sub.saved_script
             /\ variables' = sub.saved_variables
             /\ stack' = Append(sub.saved_stack,
                                IF scripts[sub.script_name][ip + 1].op = "Return" THEN Top(stack) ELSE 0)
       /\ (phase = "top" /\ phase' = "top" /\ scripts[call.name][ip + 1].op = "GosubWithParams") =>
             LET k == Top(stack)
                 args == [j \in 1..k |-> stack[Len(stack) - k - 1 + j]]
             IN  /\ k >= 0 /\ Len(stack) >= k + 1
                 /\ <<scripts[call.name][ip + 1].name, args>> \in DOMAIN memo_cache
                 /\ ip' = ip + 1
                 /\ current_script' = current_script
                 /\ variables' = variables
                 /\ stack' = Append(SubSeq(stack, 1, Len(stack) - k - 1),
                                    memo_cache[<<scripts[call.name][ip + 1].name, args>>])
      ]_vars

\* caller(7, 2) is back from callee(7, 2): the pending operand 1 is still on the stack below
\* the returned 5, and v is the caller's 1, not the 9 the callee wrote
C23_CallerBackFromCallee ==
    /\ source = FrameSrc /\ phase = "top"
    /\ call.name = "caller" /\ call.args = <<7, 2>>
    /\ ip = 11 /\ scripts["caller"][ip].op = "GosubWithParams"
    /\ current_script = "caller"
    /\ stack = <<1, 5>>
    /\ variables = [n \in {"arg0", "arg1", "a", "b", "v"} |->
                        CASE n \in {"arg0", "a"} -> 7 [] n \in {"arg1", "b"} -> 2 [] OTHER -> 1]
    /\ <<"callee", <<7, 2>>>> \in DOMAIN memo_cache /\ memo_cache[<<"callee", <<7, 2>>>>] = 5

\* C24: a GosubWithParams executed inside a script that was itself entered through
\* GosubWithParams runs the named script and leaves its return value on the calling
\* script's stack before the next instruction: in the chain f -> g -> h, where h returns
\* its argument plus one, g holds exactly that value once its call of h is behind it, and
\* f, g and h all return their argument plus one.
C24_NestedGosubRunsCallee ==
    source = ChainSrc =>
        /\ (phase = "sub" /\ ip >= 1 /\ scripts[sub.script_name][ip].op = "GosubWithParams") =>
                stack = << sub.args[1] + 1 >>
        /\ \A i \in Calls : history[i].result = ResultOk(history[i].args[1] + 1)

\* C25: a While statement is compiled to cond, BranchNot(end), body, Jump(start), start
\* being the index of the first instruction of cond and end the index just after the Jump;
\* run on the VM the body is entered only while cond holds and the loop is left only when it
\* does not, so the script summing 0..10 returns 55.
C25_WhileLoopsWhileConditionHolds ==
    /\ (phase = "idle" /\ history = <<>>) =>
            \A i \in 1..Len(asts) :
                LET script == scripts[asts[i].name.name]
                    statements == TransformedBody(asts[i].name.name, asts[i]).statements
                    Layout(w) ==
                        \E start \in 0..Len(script) :
                            LET before == [ok |-> TRUE, instructions |-> SubSeq(script, 1, start)]
                                cond == compile_node(w.condition, before)
                                body == compile_node(w.body, Emit(cond, BranchNot(0)))
                                end == Len(body.instructions) + 1
                            IN  /\ cond.ok /\ body.ok
                                /\ Len(cond.instructions) > start
                                /\ end <= Len(script)
                                /\ \A x \in 1..Len(body.instructions) :
                                        x # Len(cond.instructions) + 1 => script[x] = body.instructions[x]
                                /\ script[Len(cond.instructions) + 1] = BranchNot(end)
                                /\ script[end] = Jump(start)
                IN  \A k \in 1..Len(statements) : statements[k].tag = "While" => Layout(statements[k])
    /\ (source = LoopSrc /\ phase = "top") =>
            LET branch == CHOOSE j \in 1..Len(scripts["loop"]) : scripts["loop"][j].op = "BranchNot"
            IN  /\ ip = branch =>
                    /\ variables["i"] \in 0..10
                    /\ 2 * variables["s"] = variables["i"] * (variables["i"] - 1)
                /\ ip = scripts["loop"][branch].target =>
                    /\ variables["i"] = 11
                    /\ variables["s"] = 55
    /\ source = LoopSrc => \A i \in Calls : history[i].result = ResultOk(55)

\* the summing loop has run to its end and returned 55
C25_LoopReturned55 ==
    /\ source = LoopSrc /\ phase = "idle" /\ Len(history) = 1
    /\ history[1].name = "loop" /\ history[1].result = ResultOk(55)
    /\ \E j \in 1..Len(scripts["loop"]) : scripts["loop"][j].op = "BranchNot"
    /\ \E j \in 1..Len(scripts["loop"]) : scripts["loop"][j] = Jump(4)

\* C26: in a block comment each "/*" raises the nesting depth and each "*/" lowers it, no
\* character being part of two delimiters; the comment ends at the "*/" that brings the
\* depth to 0, and tokenize fails, with no tokens, when no "*/" does so before the input ends.
C26_BlockCommentNesting ==
    (source \in BlockCommentSources /\ phase # "new") =>
        LET Pair(j) == SubSeq(source, j, j + 1) \in {"/*", "*/"}
            \* the delimiters read from left to right: a pair that does not share its
            \* first character with the delimiter before it
            LastGap(j) == CHOOSE g \in 2..j : (g = 2 \/ ~Pair(g)) /\ \A h \in (g + 1)..j : Pair(h)
            Delimiter(j) == j >= 3 /\ j < Len(source) /\ Pair(j) /\ (j - LastGap(j)) % 2 = 1
            Depth(j) == 1 + Cardinality({h \in 3..j : Delimiter(h) /\ SubSeq(source, h, h + 1) = "/*"})
                          - Cardinality({h \in 3..j : Delimiter(h) /\ SubSeq(source, h, h + 1) = "*/"})
            Ends == {j \in 3..Len(source) : Delimiter(j) /\ Depth(j) = 0}
            lexed == tokenize(source)
        IN  IF Ends = {}
            THEN ~lexed.ok /\ lexed.tokens = <<>>
            ELSE LET end == CHOOSE j \in Ends : \A h \in Ends : j <= h
                 IN  /\ lexed.ok
                     /\ lexed.tokens[1].kind = "MultiLineComment"
                     /\ lexed.tokens[1].value = SubSeq(source, 3, end - 1)

\* C27: the line of every token is the number of newline characters that precede it in the
\* source, whether the newlines follow ordinary tokens, end a line comment or lie inside a
\* block comment (checked for each token whose text occurs exactly once in the source).
C27_TokenLineCountsNewlines ==
    (source \in LineSources /\ phase # "new") =>
        LET lexed == tokenize(source)
            Occurrences(v) == {j \in 1..(Len(source) - Len(v) + 1) : SubSeq(source, j, j + Len(v) - 1) = v}
            NewlinesBefore(j) == Cardinality({h \in 1..(j - 1) : SubSeq(source, h, h) = "\n"})
        IN  /\ lexed.ok
            /\ \A k \in 1..Len(lexed.tokens) :
                    LET t == lexed.tokens[k]
                    IN  (t.kind \in {"Trigger", "Def", "Return", "Number", "Equals"}
                         /\ Cardinality(Occurrences(t.value)) = 1) =>
                            \A j \in Occurrences(t.value) : t.line = NewlinesBefore(j)

\* C28: a script returns the same result for the same arguments whether run_script calls
\* it or a GosubWithParams of another script enters it: two calls of one (name, args)
\* return the same result, and a memo-cache entry for (name, args) holds the value a
\* top-level call of (name, args) returned.
C28_GosubAgreesWithTopLevel ==
    source \in {ChainSrc, FrameSrc} =>
        \A i \in Calls :
            /\ \A j \in Calls :
                    (history[j].name = history[i].name /\ history[j].args = history[i].args) =>
                        history[j].result = history[i].result
            /\ (history[i].result.ok /\ <<history[i].name, history[i].args>> \in DOMAIN memo_cache) =>
                    memo_cache[<<history[i].name, history[i].args>>] = history[i].result.value

\* C29: in every reachable state of the VM instruction_count is at most max_instructions,
\* and no step of run_script makes it smaller.
C29_CountMonotoneAndBounded ==
    /\ [](instruction_count >= 0 /\ instruction_count <= max_instructions)
    /\ [][instruction_count' >= instruction_count]_vars

\* the count stands at max_instructions after calls that ran into the budget
C29_CountReachedCeiling ==
    /\ source = BudgetSrc /\ phase = "idle"
    /\ instruction_count = max_instructions
    /\ Len(history) = MaxBudgetCalls
    /\ \A i \in Calls : history[i].result = ResultErr(BudgetError)
    /\ history[1].count_before < max_instructions

\* C30: the memo cache gains an entry (name, args) -> v only in the step in which the
\* script name, entered with args, completes with the value v; a call that ends in an
\* error leaves the cache as it was; and no entry is ever changed or removed.
C30_MemoCacheOnlyGainsCompletedResults ==
    [][/\ \A key \in DOMAIN memo_cache :
             key \in DOMAIN memo_cache' /\ memo_cache'[key] = memo_cache[key]
       /\ \A key \in DOMAIN memo_cache' \ DOMAIN memo_cache :
             /\ phase = "sub"
             /\ key = <<sub.script_name, sub.args>>
             /\ current_script = sub.script_name
             /\ ~BudgetExceeded
             /\ memo_cache'[key] = (IF scripts[sub.script_name][ip + 1].op = "Return" THEN Top(stack) ELSE 0)
             /\ (scripts[sub.script_name][ip + 1].op = "Return" \/ ip + 1 = Len(scripts[sub.script_name]))
             /\ Len(history') > Len(history) => history'[Len(history')].result.ok
       /\ (Len(history') > Len(history) /\ ~history'[Len(history')].result.ok) =>
             memo_cache' = memo_cache
       /\ phase' = "panic" => memo_cache' = memo_cache
      ]_vars

\* caller(7, 2) has cached callee(7, 2) -> 5, and the following caller(-2147483648, 1),
\* whose callee overflowed, has added nothing
C30_ErrorAddedNoEntry ==
    /\ source = FrameSrc /\ phase = "idle" /\ Len(history) = 2
    /\ history[1].name = "caller" /\ history[1].args = <<7, 2>> /\ history[1].result = ResultOk(6)
    /\ history[2].name = "caller" /\ history[2].args = <<I32Min, 1>>
    /\ history[2].result = ResultErr("Integer overflow")
    /\ DOMAIN memo_cache = {<<"callee", <<7, 2>>>>}
    /\ memo_cache[<<"callee", <<7, 2>>>>] = 5

=============================================================================
